---- MODULE Spec2Model ----
(***************************************************************************)
(* A model of ssh-mcp: the session manager (internal/session/manager.go),  *)
(* the SSH client built on it (internal/ssh/client.go), the tool handlers  *)
(* (internal/server/tools.go), the entry of each file operation            *)
(* (internal/file/operations.go) and the host check of the security        *)
(* manager (internal/security).                                            *)
(*                                                                         *)
(* Every request is handled on a goroutine of its own, and the goroutine   *)
(* of Manager.StartCleanupRoutine runs CleanupExpiredSessions on every     *)
(* tick of its ticker.  A method of the session manager is a critical      *)
(* section of Manager.mu.  A critical section that only reads and writes   *)
(* the table is one step of the model; RemoveSession, which closes the     *)
(* connection inside its critical section, is three steps with the lock    *)
(* held in the variable mu, so what other goroutines do meanwhile is part  *)
(* of the behaviours checked.                                              *)
(***************************************************************************)
EXTENDS Integers, Sequences, FiniteSets, TLC

(***************************************************************************)
(* Bounds of the model.                                                    *)
(***************************************************************************)
\* requests taken up in one behaviour; each is handled on a goroutine of
\* its own, so up to MaxRequests handlers run concurrently
MaxRequests == 3
\* seconds ExecuteCommand waits when args.Timeout is not positive
DefaultTimeout == 30
\* capacity of errCh in ExecuteCommand
ErrChCap == 1
\* the "timeout" argument of ssh_execute requests, in seconds; 0 stands for
\* a request without the argument
RequestedTimeouts == {-1, 0, 1, 3}

\* lines in an output of "ls -la"
MaxLines == 3
\* bytes one buffer of io.Copy and io.CopyN holds
BufSize == 2
\* the size Lstat reports for a symbolic link: the length of its target path
LinkSize == 9

\* lines the security manager prints in a run with logging enabled
MaxLogLines == 3

\* clock ticks per second of the RFC3339 rendering (the program's clock has
\* 10^9): generateSessionID reads the clock at full resolution, the listing
\* renders whole seconds
TicksPerSecond == 2

\* Manager.sessionExpiry as given to NewManager, in clock ticks
sessionExpiry == 1
\* the clock runs until a session that was never used has expired
MaxTime == sessionExpiry + 1

\* the goroutines that handle requests
Workers == 1..MaxRequests
\* the goroutine started by Manager.StartCleanupRoutine
Sweeper == 0
\* value of mu when no goroutine holds the lock
NoOne == -1

\* hosts and user names requests carry
Hosts == {"h", "bad"}
Users == {"u"}
\* security.Config.DeniedHosts and security.Config.AllowedHosts
DeniedHosts == <<"bad">>
AllowedHosts == <<>>
\* the security.Config the server is set up with: no command lists and no
\* rate limit (a host deny-list is added, so that the gate of ssh_connect
\* has something to deny)
ServerConfig ==
    [AllowedHosts |-> AllowedHosts, DeniedHosts |-> DeniedHosts,
     AllowedCommands |-> <<>>, DeniedCommands |-> <<>>,
     RateLimit |-> 0, LoggingEnabled |-> FALSE]
\* a security.Config with command lists and a rate limit of two ticks
GateConfig ==
    [AllowedHosts |-> <<>>, DeniedHosts |-> <<"bad">>,
     AllowedCommands |-> <<"ls", "rm -i">>, DeniedCommands |-> <<"rm">>,
     RateLimit |-> 2, LoggingEnabled |-> FALSE]
\* maxAge of security.Manager.StartCleanupRoutine: the server passes its
\* SessionExpiry
rateLimiterMaxAge == sessionExpiry
\* host lists security.Config is given, and the hosts CheckHost is called
\* with: a host name or address, alone or followed by a port
DenyLists == {<<>>, <<"evil.com">>, <<"*.example.com">>, <<"evil.com", "192.168.1.0/24">>}
AllowLists == {<<>>, <<"example.com">>, <<"*.example.com", "evil.com">>, <<"192.168.0.0/16">>}
BaseHosts == {"example.com", "a.example.com", "evil.com", "192.168.1.10", "10.0.0.1"}
PortSuffixes == {"", ":22"}
HostConfigs ==
    {[AllowedHosts |-> a, DeniedHosts |-> d,
      AllowedCommands |-> <<>>, DeniedCommands |-> <<>>,
      RateLimit |-> 0, LoggingEnabled |-> FALSE] : a \in AllowLists, d \in DenyLists}
\* configurations and session ids CheckCommand is called with; RateLimit is
\* in clock ticks
RateLimits == {0, 1, 2}
AllowedCommandLists == {<<>>, <<"ls", "rm -i">>}
LimiterConfigs ==
    {[AllowedHosts |-> <<>>, DeniedHosts |-> <<>>,
      AllowedCommands |-> a, DeniedCommands |-> <<"rm">>,
      RateLimit |-> r, LoggingEnabled |-> FALSE] :
        a \in AllowedCommandLists, r \in RateLimits}
SessionIds == {"s1", "s2"}
\* configurations with logging enabled, for the manager that is compared
\* with one that has logging disabled
LogConfigs ==
    {[AllowedHosts |-> <<>>, DeniedHosts |-> <<"bad">>,
      AllowedCommands |-> <<"ls", "rm -i">>, DeniedCommands |-> <<"rm">>,
      RateLimit |-> r, LoggingEnabled |-> TRUE] : r \in RateLimits}
\* hosts and patterns matchHost is called with
MatchHosts ==
    {"a.example.com", "b.a.example.com", "example.com", "notexample.com",
     ".example.com", "*.example.com", "192.168.1.10", "192.168.2.10",
     "192.168.1.0/24", "192.168.1.256", "10.1.2.3", "not-an-ip", "invalid/24"}
MatchPatterns ==
    {"*.example.com", "example.com", "*.com", "*.0/24", "192.168.1.0/24",
     "192.168.0.0/16", "192.168.1.10/32", "10.0.0.0/8", "0.0.0.0/0",
     "192.168.1.0/33", "invalid/24", "invalid-cidr"}
\* commands ssh_execute requests carry
Commands == {"ls", "rm", "rm -i", "cat"}
\* the local path file operations are given
LocalPaths == {"l"}

VARIABLES
    now,        \* time.Now(), in ticks
    sessions,   \* Manager.sessions: session id -> address of its Session
    heap,       \* Session objects by address
    closed,     \* per connection handle: how often Close was called on it
    mu,         \* holder of Manager.mu (write lock), or NoOne
    pc,         \* where each request goroutine stands
    loc,        \* the locals of each request goroutine
    res,        \* what the step just taken returned, and to whom (NoResult
                \* when the step was no return)
    localFS,    \* local file system: path -> "absent", "empty", "file", "dir"
    removedIds, \* history: ids removed from the table and not added since
    nreq,       \* history: requests taken up so far
    security,   \* the security.Manager: config, rateLimiter, and the lines
                \* logOperation has printed
    twin,       \* a second security.Manager, driven by the same calls
    permitted,  \* kept by a direct caller of CheckCommand: session id ->
                \* time of its last call for that id that returned nil
    exec,       \* the call of ExecuteCommand, ListDirectory or scpSession
                \* that is followed statement by statement
    run,        \* an ssh_execute request raced against its deadline: the
                \* caller, the goroutine that runs the command, errCh
    scp,        \* an SCP exchange: what the callback read, wrote and returned
    call        \* the call made on the security manager by the step just
                \* taken: its arguments and what it returned

vars == <<now, sessions, heap, closed, mu, pc, loc, res, localFS, removedIds, nreq,
          security, twin, permitted, call, exec, run, scp>>

(***************************************************************************)
(* Strings.                                                                *)
(***************************************************************************)
HasPrefix(s, prefix) ==
    /\ Len(prefix) <= Len(s)
    /\ SubSeq(s, 1, Len(prefix)) = prefix

HasSuffix(s, suffix) ==
    /\ Len(suffix) <= Len(s)
    /\ SubSeq(s, Len(s) - Len(suffix) + 1, Len(s)) = suffix

\* strings.Contains(s, c) for a one-character c
ContainsChar(s, c) == \E i \in 1..Len(s) : SubSeq(s, i, i) = c

\* positions of the character c in s
Positions(s, c) == {i \in 1..Len(s) : SubSeq(s, i, i) = c}

Min(S) == CHOOSE x \in S : \A y \in S : x <= y
Max(S) == CHOOSE x \in S : \A y \in S : x >= y

DigitChars == "0123456789"
IsDigit(c) == \E i \in 1..10 : SubSeq(DigitChars, i, i) = c
DigitVal(c) == (CHOOSE i \in 1..10 : SubSeq(DigitChars, i, i) = c) - 1
AllDigits(s) == \A i \in 1..Len(s) : IsDigit(SubSeq(s, i, i))

\* value of a string of decimal digits
RECURSIVE DecVal(_)
DecVal(s) ==
    IF Len(s) = 0 THEN 0
    ELSE 10 * DecVal(SubSeq(s, 1, Len(s) - 1)) + DigitVal(SubSeq(s, Len(s), Len(s)))

(***************************************************************************)
(* The security manager's host check.                                      *)
(***************************************************************************)
\* a SplitHostPort that fails on every string
SplitHostPortFails(hostport) == <<FALSE, "">>

\* net.SplitHostPort: <<ok, host>>.  It succeeds on "host:port" with one
\* colon and no brackets and on "[host]:port"; a string without a colon
\* ("missing port in address") or with several outside brackets ("too many
\* colons") is an error.
SplitHostPort(hostport) ==
    LET colons == Positions(hostport, ":") IN
    IF colons = {} THEN <<FALSE, "">>
    ELSE LET i == Max(colons) IN
         IF Len(hostport) > 0 /\ SubSeq(hostport, 1, 1) = "["
         THEN LET ends == Positions(hostport, "]") IN
              IF ends = {} \/ Min(ends) + 1 # i
                 \/ ContainsChar(SubSeq(hostport, 2, Len(hostport)), "[")
                 \/ Cardinality(ends) > 1
              THEN <<FALSE, "">>
              ELSE <<TRUE, SubSeq(hostport, 2, Min(ends) - 1)>>
         ELSE IF Cardinality(colons) > 1
                 \/ ContainsChar(hostport, "[") \/ ContainsChar(hostport, "]")
              THEN <<FALSE, "">>
              ELSE <<TRUE, SubSeq(hostport, 1, i - 1)>>

\* one decimal octet of a dotted quad: 1 to 3 digits, at most 255, no
\* leading zero
IsOctet(f) ==
    /\ Len(f) >= 1 /\ Len(f) <= 3
    /\ AllDigits(f)
    /\ (Len(f) > 1 => SubSeq(f, 1, 1) # "0")
    /\ DecVal(f) <= 255

\* net.ParseIP on an IPv4 dotted quad: the four octets, or <<>> for nil.
\* (IPv6 text is outside the hosts and patterns of the model.)
ParseIP(s) ==
    LET dots == Positions(s, ".") IN
    IF Cardinality(dots) # 3 THEN <<>>
    ELSE LET d1 == Min(dots)
             d3 == Max(dots)
             d2 == CHOOSE d \in dots : d # d1 /\ d # d3
             f == <<SubSeq(s, 1, d1 - 1), SubSeq(s, d1 + 1, d2 - 1),
                    SubSeq(s, d2 + 1, d3 - 1), SubSeq(s, d3 + 1, Len(s))>>
         IN IF \A k \in 1..4 : IsOctet(f[k])
            THEN [k \in 1..4 |-> DecVal(f[k])]
            ELSE <<>>

Pow2(n) == IF n = 0 THEN 1 ELSE IF n = 1 THEN 2 ELSE IF n = 2 THEN 4
           ELSE IF n = 3 THEN 8 ELSE IF n = 4 THEN 16 ELSE IF n = 5 THEN 32
           ELSE IF n = 6 THEN 64 ELSE IF n = 7 THEN 128 ELSE 256

\* the leading bits of octet k that a mask of the given length covers
MaskBits(k, bits) ==
    IF bits >= 8 * k THEN 8
    ELSE IF bits <= 8 * (k - 1) THEN 0 ELSE bits - 8 * (k - 1)

\* net.ParseCIDR on "a.b.c.d/n": <<ok, address, n>>
ParseCIDR(pattern) ==
    LET slashes == Positions(pattern, "/") IN
    IF slashes = {} THEN <<FALSE, <<>>, 0>>
    ELSE LET i == Min(slashes)
             addr == ParseIP(SubSeq(pattern, 1, i - 1))
             mask == SubSeq(pattern, i + 1, Len(pattern))
         IN IF addr = <<>> \/ Len(mask) = 0 \/ ~AllDigits(mask)
            THEN <<FALSE, <<>>, 0>>
            ELSE IF DecVal(mask) > 32 THEN <<FALSE, <<>>, 0>>
            ELSE <<TRUE, addr, DecVal(mask)>>

\* net.IPNet.Contains: the address agrees with the network on the masked bits
IPNetContains(net, bits, ip) ==
    \A k \in 1..4 :
        net[k] \div Pow2(8 - MaskBits(k, bits)) = ip[k] \div Pow2(8 - MaskBits(k, bits))

\* a matchHost that also strips the dot of the wildcard
matchHostNoDot(host, pattern) ==
    IF host = pattern THEN TRUE
    ELSE IF HasPrefix(pattern, "*.")
    THEN HasSuffix(host, SubSeq(pattern, 3, Len(pattern)))
    ELSE IF ContainsChar(pattern, "/")
    THEN LET cidr == ParseCIDR(pattern)
             ip == ParseIP(host)
         IN IF ~cidr[1] THEN FALSE
            ELSE IF ip = <<>> THEN FALSE
            ELSE IPNetContains(cidr[2], cidr[3], ip)
    ELSE FALSE

\* a matchHost that takes a host that is no address to be inside the network
matchHostAnyHost(host, pattern) ==
    IF host = pattern THEN TRUE
    ELSE IF HasPrefix(pattern, "*.")
    THEN HasSuffix(host, SubSeq(pattern, 2, Len(pattern)))
    ELSE IF ContainsChar(pattern, "/")
    THEN LET cidr == ParseCIDR(pattern)
             ip == ParseIP(host)
         IN IF ~cidr[1] THEN FALSE
            ELSE IF ip = <<>> THEN TRUE
            ELSE IPNetContains(cidr[2], cidr[3], ip)
    ELSE FALSE

\* matchHost: exact match, then "*." wildcard, then CIDR
matchHost(host, pattern) ==
    IF host = pattern THEN TRUE
    ELSE IF HasPrefix(pattern, "*.")
    THEN HasSuffix(host, SubSeq(pattern, 2, Len(pattern)))
    ELSE IF ContainsChar(pattern, "/")
    THEN LET cidr == ParseCIDR(pattern)
             ip == ParseIP(host)
         IN IF ~cidr[1] THEN FALSE
            ELSE IF ip = <<>> THEN FALSE
            ELSE IPNetContains(cidr[2], cidr[3], ip)
    ELSE FALSE

\* security.NewManager
NewSecurityManager(cfg) ==
    [config |-> cfg, rateLimiter |-> <<>>, mu |-> NoOne, log |-> <<>>]

\* a logOperation that drops the session's limiter entry when it prints
logOperationDrops(m, operation, sessionID, details) ==
    IF ~m.config.LoggingEnabled THEN m
    ELSE [m EXCEPT !.log = Append(@, <<operation, sessionID, details>>),
                   !.rateLimiter = [i \in DOMAIN @ \ {sessionID} |-> @[i]]]

\* Manager.logOperation: the manager after the call; a line is printed
\* when logging is enabled
logOperation(m, operation, sessionID, details) ==
    IF ~m.config.LoggingEnabled THEN m
    ELSE [m EXCEPT !.log = Append(@, <<operation, sessionID, details>>)]

\* Manager.CheckHost(hostArg) on the manager m: the error it returns ("" for
\* nil) and the manager after the call
CheckHost(m, hostArg) ==
    LET split == SplitHostPort(hostArg)
        host == IF split[1] THEN split[2] ELSE hostArg
        denied == m.config.DeniedHosts
        allowed == m.config.AllowedHosts
    IN IF \E i \in 1..Len(denied) : matchHost(host, denied[i])
       THEN [err |-> "host " \o host \o " is denied",
             mgr |-> logOperation(m, "host_denied", host, "")]
       ELSE IF Len(allowed) = 0 THEN [err |-> "", mgr |-> m]
       ELSE IF \E i \in 1..Len(allowed) : matchHost(host, allowed[i])
       THEN [err |-> "", mgr |-> m]
       ELSE [err |-> "host " \o host \o " is not allowed",
             mgr |-> logOperation(m, "host_not_allowed", host, "")]

\* CheckHost on the security manager as the server sets it up, for the
\* hosts requests carry
HostGate == [h \in Hosts |-> CheckHost(NewSecurityManager(ServerConfig), h)]

\* the rate-limit test of CheckCommand at time t
RateLimited(m, sessionID, t) ==
    /\ m.config.RateLimit > 0
    /\ sessionID \in DOMAIN m.rateLimiter
    /\ t - m.rateLimiter[sessionID] < m.config.RateLimit

\* a CheckCommand that consults the allow-list before the deny-list
CheckCommandAllowFirst(m, sessionID, command, t) ==
    IF RateLimited(m, sessionID, t)
    THEN [err |-> "rate limit exceeded, please try again later",
          mgr |-> logOperation(m, "rate_limited", sessionID, command)]
    ELSE LET stamped == IF m.config.RateLimit > 0
                        THEN [m EXCEPT !.rateLimiter = (sessionID :> t) @@ @]
                        ELSE m
             denied == m.config.DeniedCommands
             allowed == m.config.AllowedCommands
         IN IF \E i \in 1..Len(allowed) : HasPrefix(command, allowed[i])
            THEN [err |-> "",
                  mgr |-> logOperation(stamped, "command_executed", sessionID, command)]
            ELSE IF \E i \in 1..Len(denied) : HasPrefix(command, denied[i])
            THEN [err |-> "command '" \o command \o "' is denied",
                  mgr |-> logOperation(stamped, "command_denied", sessionID, command)]
            ELSE IF Len(allowed) = 0
            THEN [err |-> "",
                  mgr |-> logOperation(stamped, "command_executed", sessionID, command)]
            ELSE [err |-> "command '" \o command \o "' is not allowed",
                  mgr |-> logOperation(stamped, "command_not_allowed", sessionID,
                                       command)]

\* Manager.CheckCommand(sessionID, command) on the manager m at time t: the
\* error it returns ("" for nil) and the manager after the call
CheckCommand(m, sessionID, command, t) ==
    IF RateLimited(m, sessionID, t)
    THEN [err |-> "rate limit exceeded, please try again later",
          mgr |-> logOperation(m, "rate_limited", sessionID, command)]
    ELSE LET stamped == IF m.config.RateLimit > 0
                        THEN [m EXCEPT !.rateLimiter = (sessionID :> t) @@ @]
                        ELSE m
             denied == m.config.DeniedCommands
             allowed == m.config.AllowedCommands
         IN IF \E i \in 1..Len(denied) : HasPrefix(command, denied[i])
            THEN [err |-> "command '" \o command \o "' is denied",
                  mgr |-> logOperation(stamped, "command_denied", sessionID, command)]
            ELSE IF Len(allowed) = 0
                    \/ \E i \in 1..Len(allowed) : HasPrefix(command, allowed[i])
            THEN [err |-> "",
                  mgr |-> logOperation(stamped, "command_executed", sessionID, command)]
            ELSE [err |-> "command '" \o command \o "' is not allowed",
                  mgr |-> logOperation(stamped, "command_not_allowed", sessionID,
                                       command)]

(***************************************************************************)
(* State of the goroutines.                                                *)
(***************************************************************************)
NoLocals ==
    [op |-> "", id |-> "", h |-> 0, host |-> "", user |-> "", path |-> "",
     ptrs |-> {}, snap |-> <<>>, gated |-> FALSE]

\* a return: the goroutine p, the operation op and its sessionId argument
\* id, the error err ("" for nil) and the value returned
NoResult ==
    [p |-> NoOne, op |-> "", id |-> "", err |-> "", val |-> "", list |-> {}, n |-> 0]

\* the handler of worker p returns
Return(p, r) ==
    /\ res' = [r EXCEPT !.p = p]
    /\ pc' = [pc EXCEPT ![p] = "idle"]
    /\ loc' = [loc EXCEPT ![p] = NoLocals]

\* worker p goes on to the step named next with the locals l
Goto(p, next, l) ==
    /\ pc' = [pc EXCEPT ![p] = next]
    /\ loc' = [loc EXCEPT ![p] = l]
    /\ res' = NoResult

\* no call on the security manager
NoCall == [fn |-> "", arg |-> <<>>, err |-> ""]
\* no second security manager
NoTwin == <<>>

\* a step that makes no call on the security manager
NoGate ==
    /\ call' = NoCall
    /\ UNCHANGED <<security, twin, permitted, exec, run, scp>>

\* a request arrives and is handled by p, the first free goroutine (which
\* of the free ones takes it makes no difference)
Accept(p) ==
    /\ pc[p] = "idle"
    /\ \A q \in Workers : q < p => pc[q] # "idle"
    /\ nreq < MaxRequests
    /\ nreq' = nreq + 1

\* no call is followed: the operation, the statement reached, the channels
\* opened and the Close calls on them, the remote commands started, the stdin
\* pipes obtained and the Close calls on them, the variable stdinW, the
\* deferred calls not yet run, the callback's error and the error returned
NoExec ==
    [op |-> "", pc |-> "idle", opened |-> 0, closes |-> 0, starts |-> 0,
     pipes |-> 0, pipeCloses |-> 0, stdinW |-> "nil", defers |-> <<>>,
     ferr |-> "", err |-> ""]

\* no ssh_execute request is raced against its deadline
NoRun ==
    [pc |-> "idle", requested |-> 0, deadline |-> 0, elapsed |-> 0,
     worker |-> "none", errCh |-> <<>>, remote |-> "none", chClosed |-> FALSE,
     err |-> ""]

\* no SCP exchange has taken place
NoScp == [op |-> ""]

\* the server as SetupServer leaves it, with the security.Config cfg and
\* the second security manager of a comparison
SetupWith(cfg, second) ==
    /\ now = 0
    /\ sessions = <<>>
    /\ heap = <<>>
    /\ closed = <<>>
    /\ mu = NoOne
    /\ pc = [p \in Workers |-> "idle"]
    /\ loc = [p \in Workers |-> NoLocals]
    /\ res = NoResult
    /\ localFS = [f \in LocalPaths |-> "absent"]
    /\ removedIds = {}
    /\ nreq = 0
    /\ security = NewSecurityManager(cfg)
    /\ twin = second
    /\ permitted = <<>>
    /\ exec = NoExec
    /\ run = NoRun
    /\ scp = NoScp
    /\ call = NoCall

Setup(cfg) == SetupWith(cfg, NoTwin)

Init == Setup(ServerConfig)

\* the server set up with command lists and a rate limit
GateInit == Setup(GateConfig)

\* the clock advances
Tick ==
    /\ now < MaxTime
    /\ now' = now + 1
    /\ res' = NoResult
    /\ NoGate
    /\ UNCHANGED <<sessions, heap, closed, mu, pc, loc, localFS, removedIds, nreq>>

(***************************************************************************)
(* ssh_connect: the gate, Client.Connect, Manager.AddSession.              *)
(***************************************************************************)
\* how a connect request authenticates
AuthCases == {"password", "key", "unreadable key", "unparsable key", "none"}

\* fmt.Sprintf("%s-%s-%d", host, username, nanos)
FormatSessionID(host, username, nanos) ==
    host \o "-" \o username \o "-" \o ToString(nanos)

\* generateSessionID: the id formatted from host, user name and time.Now()
generateSessionID(host, username) ==
    FormatSessionID(host, username, now)

\* Client.Connect up to the call of AddSession: the error it returns before
\* dialling, or ""
ConnectAuthError(auth) ==
    IF auth = "password" \/ auth = "key" THEN ""
    ELSE IF auth = "unreadable key" THEN "unable to read private key"
    ELSE IF auth = "unparsable key" THEN "unable to parse private key"
    ELSE "no authentication method provided"

\* the ssh_connect handler up to the call of AddSession: CheckHost, then
\* Client.Connect up to the dial and generateSessionID
Connect(p, host, user, auth, dialOK) ==
    /\ Accept(p)
    /\ LET gate == IF security = NewSecurityManager(ServerConfig)
                   THEN HostGate[host] ELSE CheckHost(security, host) IN
       /\ security' = gate.mgr
       /\ call' = [fn |-> "CheckHost", arg |-> <<host>>, err |-> gate.err]
       /\ IF gate.err # ""
          THEN /\ Return(p, [NoResult EXCEPT !.op = "connect", !.err = gate.err])
               /\ closed' = closed
          ELSE IF ConnectAuthError(auth) # ""
          THEN /\ Return(p, [NoResult EXCEPT !.op = "connect",
                                             !.err = ConnectAuthError(auth)])
               /\ closed' = closed
          ELSE IF ~dialOK
          THEN /\ Return(p, [NoResult EXCEPT !.op = "connect",
                                             !.err = "failed to connect to SSH server"])
               /\ closed' = closed
          ELSE /\ closed' = Append(closed, 0)
               /\ Goto(p, "add", [NoLocals EXCEPT !.op = "connect", !.gated = TRUE,
                                                  !.id = generateSessionID(host, user),
                                                  !.h = Len(closed) + 1,
                                                  !.host = host, !.user = user])
    /\ UNCHANGED <<now, sessions, heap, mu, localFS, removedIds, twin, permitted,
                   exec, run, scp>>

\* Manager.AddSession, called by Client.Connect, which then returns the id
AddSession(p) ==
    /\ pc[p] = "add"
    /\ mu = NoOne
    /\ heap' = (loc[p].h :> [ID |-> loc[p].id, Client |-> loc[p].h,
                             CreatedAt |-> now, LastActivity |-> now,
                             Host |-> loc[p].host, Username |-> loc[p].user])
               @@ heap
    /\ sessions' = (loc[p].id :> loc[p].h) @@ sessions
    /\ removedIds' = removedIds \ {loc[p].id}
    /\ Return(p, [NoResult EXCEPT !.op = "connect", !.val = loc[p].id])
    /\ NoGate
    /\ UNCHANGED <<now, closed, mu, localFS, nreq>>

(***************************************************************************)
(* Manager.GetSession and the operations that start with it.               *)
(***************************************************************************)
\* session ids requests carry: every id a connect has returned so far, and
\* one that is never issued (any other id is as absent as that one)
RequestIds == DOMAIN sessions \cup removedIds \cup {"non-existent"}

\* GetSession that refreshes CreatedAt along with LastActivity
GetSessionTouchCreated(id) ==
    [heap EXCEPT ![sessions[id]].LastActivity = now, ![sessions[id]].CreatedAt = now]

\* GetSession that sets LastActivity to the zero time
GetSessionResets(id) ==
    [heap EXCEPT ![sessions[id]].LastActivity = 0]

\* Manager.GetSession on a present id: the heap with LastActivity refreshed
GetSession(id) ==
    [heap EXCEPT ![sessions[id]].LastActivity = now]

NotFound(op, id) ==
    [NoResult EXCEPT !.op = op, !.id = id, !.err = "session not found"]

\* the locals of an operation that resolved id
Resolved(op, id, path) ==
    [NoLocals EXCEPT !.op = op, !.id = id, !.h = sessions[id], !.path = path]

\* a handler that calls CheckCommand and goes on whatever it returns
ExecuteGateIgnored(p, id, command) ==
    /\ Accept(p)
    /\ LET gate == CheckCommand(security, id, command, now) IN
       /\ security' = gate.mgr
       /\ call' = [fn |-> "CheckCommand", arg |-> <<id, command>>, err |-> gate.err]
       /\ Goto(p, "exec", [NoLocals EXCEPT !.op = "execute", !.id = id,
                                           !.gated = TRUE])
    /\ UNCHANGED <<now, sessions, heap, closed, mu, localFS, removedIds, twin,
                   permitted, exec, run, scp>>

\* the ssh_execute handler up to the call of Client.ExecuteCommand:
\* CheckCommand, whose error the handler returns
ExecuteGate(p, id, command) ==
    /\ Accept(p)
    /\ LET gate == CheckCommand(security, id, command, now) IN
       /\ security' = gate.mgr
       /\ call' = [fn |-> "CheckCommand", arg |-> <<id, command>>, err |-> gate.err]
       /\ IF gate.err # ""
          THEN Return(p, [NoResult EXCEPT !.op = "execute", !.id = id,
                                          !.err = gate.err])
          ELSE Goto(p, "exec", [NoLocals EXCEPT !.op = "execute", !.id = id,
                                                !.gated = TRUE])
    /\ UNCHANGED <<now, sessions, heap, closed, mu, localFS, removedIds, twin,
                   permitted, exec, run, scp>>

\* Client.ExecuteCommand up to NewSession
ExecuteCommand(p) ==
    /\ pc[p] = "exec"
    /\ mu = NoOne
    /\ IF loc[p].id \notin DOMAIN sessions
       THEN /\ Return(p, NotFound("execute", loc[p].id))
            /\ heap' = heap
       ELSE /\ heap' = GetSession(loc[p].id)
            /\ Goto(p, "open", [Resolved("execute", loc[p].id, "")
                                    EXCEPT !.gated = loc[p].gated])
    /\ NoGate
    /\ UNCHANGED <<now, sessions, closed, mu, localFS, removedIds, nreq>>

\* Operations.ListDirectory up to NewSession
ListDirectory(p, id) ==
    /\ Accept(p)
    /\ mu = NoOne
    /\ IF id \notin DOMAIN sessions
       THEN /\ Return(p, NotFound("listDirectory", id))
            /\ heap' = heap
       ELSE /\ heap' = GetSession(id)
            /\ Goto(p, "open", Resolved("listDirectory", id, ""))
    /\ NoGate
    /\ UNCHANGED <<now, sessions, closed, mu, localFS, removedIds>>

\* Operations.Upload up to scpSession: GetSession, then os.Open and Stat
Upload(p, id, path) ==
    /\ Accept(p)
    /\ mu = NoOne
    /\ IF id \notin DOMAIN sessions
       THEN /\ Return(p, NotFound("upload", id))
            /\ heap' = heap
       ELSE /\ heap' = GetSession(id)
            /\ IF localFS[path] = "absent"
               THEN Return(p, [NoResult EXCEPT !.op = "upload", !.id = id,
                                               !.err = "failed to open local file"])
               ELSE Goto(p, "open", Resolved("upload", id, path))
    /\ NoGate
    /\ UNCHANGED <<now, sessions, closed, mu, localFS, removedIds>>

\* Download that creates the local file before it resolves the session
DownloadCreateFirst(p, id, path) ==
    /\ Accept(p)
    /\ mu = NoOne
    /\ IF localFS[path] = "dir"
       THEN /\ Return(p, [NoResult EXCEPT !.op = "download", !.id = id,
                                          !.err = "failed to create local file"])
            /\ localFS' = localFS
            /\ heap' = heap
       ELSE /\ localFS' = [localFS EXCEPT ![path] = "empty"]
            /\ IF id \notin DOMAIN sessions
               THEN /\ Return(p, NotFound("download", id))
                    /\ heap' = heap
               ELSE /\ heap' = GetSession(id)
                    /\ Goto(p, "open", Resolved("download", id, path))
    /\ NoGate
    /\ UNCHANGED <<now, sessions, closed, mu, removedIds>>

\* Operations.Download up to scpSession: GetSession, then os.Create
Download(p, id, path) ==
    /\ Accept(p)
    /\ mu = NoOne
    /\ IF id \notin DOMAIN sessions
       THEN /\ Return(p, NotFound("download", id))
            /\ heap' = heap
            /\ localFS' = localFS
       ELSE /\ heap' = GetSession(id)
            /\ IF localFS[path] = "dir"
               THEN /\ Return(p, [NoResult EXCEPT !.op = "download", !.id = id,
                                                  !.err = "failed to create local file"])
                    /\ localFS' = localFS
               ELSE /\ localFS' = [localFS EXCEPT ![path] = "empty"]
                    /\ Goto(p, "open", Resolved("download", id, path))
    /\ NoGate
    /\ UNCHANGED <<now, sessions, closed, mu, removedIds>>

\* Operations.UploadDir up to scpSession
UploadDir(p, id, path) ==
    /\ Accept(p)
    /\ mu = NoOne
    /\ IF id \notin DOMAIN sessions
       THEN /\ Return(p, NotFound("uploadDir", id))
            /\ heap' = heap
       ELSE /\ heap' = GetSession(id)
            /\ Goto(p, "open", Resolved("uploadDir", id, path))
    /\ NoGate
    /\ UNCHANGED <<now, sessions, closed, mu, localFS, removedIds>>

\* Operations.DownloadDir up to scpSession: GetSession, then os.Stat and
\* os.MkdirAll
DownloadDir(p, id, path) ==
    /\ Accept(p)
    /\ mu = NoOne
    /\ IF id \notin DOMAIN sessions
       THEN /\ Return(p, NotFound("downloadDir", id))
            /\ heap' = heap
            /\ localFS' = localFS
       ELSE /\ heap' = GetSession(id)
            /\ IF localFS[path] \in {"empty", "file"}
               THEN /\ Return(p, [NoResult EXCEPT !.op = "downloadDir", !.id = id,
                                                  !.err = "local path is not a directory"])
                    /\ localFS' = localFS
               ELSE /\ localFS' = [localFS EXCEPT ![path] = "dir"]
                    /\ Goto(p, "open", Resolved("downloadDir", id, path))
    /\ NoGate
    /\ UNCHANGED <<now, sessions, closed, mu, removedIds>>

(***************************************************************************)
(* The exec channel of an operation that resolved its session.             *)
(***************************************************************************)
\* operations that run through Operations.scpSession
ScpOps == {"upload", "download", "uploadDir", "downloadDir"}

\* sess.Client.NewSession(): it fails on a connection that was closed
NewSession(p) ==
    /\ pc[p] = "open"
    /\ IF closed[loc[p].h] > 0
       THEN Return(p, [NoResult EXCEPT !.op = loc[p].op, !.id = loc[p].id,
                                       !.err = "failed to create SSH session"])
       ELSE Goto(p, "use", loc[p])
    /\ NoGate
    /\ UNCHANGED <<now, sessions, heap, closed, mu, localFS, removedIds, nreq>>

\* how the use of an exec channel ends
Outcomes(op) ==
    IF op = "execute" THEN {"ok", "failed", "timed out"} ELSE {"ok", "failed"}

\* the error an operation returns for an outcome
OutcomeError(op, outcome) ==
    IF outcome = "ok" THEN ""
    ELSE IF op = "execute"
    THEN IF outcome = "timed out" THEN "command execution timed out"
         ELSE "command execution failed"
    ELSE IF op = "listDirectory" THEN "failed to list directory"
    ELSE "SCP protocol error"

\* the rest of ExecuteCommand, ListDirectory or scpSession: the remote
\* command runs, the deferred Close of the channel, the return
Finish(p, outcome) ==
    /\ pc[p] = "use"
    /\ outcome \in Outcomes(loc[p].op)
    /\ localFS' = IF loc[p].op = "download" /\ outcome = "ok"
                  THEN [localFS EXCEPT ![loc[p].path] = "file"]
                  ELSE localFS
    /\ Return(p, [NoResult EXCEPT !.op = loc[p].op, !.id = loc[p].id,
                                  !.err = OutcomeError(loc[p].op, outcome),
                                  !.val = IF outcome = "ok" THEN "done" ELSE ""])
    /\ NoGate
    /\ UNCHANGED <<now, sessions, heap, closed, mu, removedIds, nreq>>

(***************************************************************************)
(* ssh_disconnect: Client.Disconnect calls Manager.RemoveSession.          *)
(***************************************************************************)
\* RemoveSession that looks the id up without taking the lock
RemoveSessionNoLock(p, id) ==
    /\ Accept(p)
    /\ IF id \notin DOMAIN sessions
       THEN Return(p, NotFound("disconnect", id))
       ELSE Goto(p, "rm_close", [NoLocals EXCEPT !.op = "disconnect", !.id = id,
                                                 !.h = heap[sessions[id]].Client])
    /\ NoGate
    /\ UNCHANGED <<now, sessions, heap, closed, mu, localFS, removedIds>>

\* RemoveSession: Lock and the lookup; an absent id returns the error
RemoveSession(p, id) ==
    /\ Accept(p)
    /\ mu = NoOne
    /\ IF id \notin DOMAIN sessions
       THEN /\ Return(p, NotFound("disconnect", id))
            /\ mu' = mu
       ELSE /\ mu' = p
            /\ Goto(p, "rm_close", [NoLocals EXCEPT !.op = "disconnect", !.id = id,
                                                    !.h = heap[sessions[id]].Client])
    /\ NoGate
    /\ UNCHANGED <<now, sessions, heap, closed, localFS, removedIds>>

\* RemoveSession: session.Client.Close()
RemoveClose(p) ==
    /\ pc[p] = "rm_close"
    /\ closed' = [closed EXCEPT ![loc[p].h] = @ + 1]
    /\ Goto(p, "rm_delete", loc[p])
    /\ NoGate
    /\ UNCHANGED <<now, sessions, heap, mu, localFS, removedIds, nreq>>

\* the table without the entry of id
Delete(id) == [i \in DOMAIN sessions \ {id} |-> sessions[i]]

\* RemoveSession that returns without deleting the entry
RemoveDeleteKeep(p) ==
    /\ pc[p] = "rm_delete"
    /\ mu' = NoOne
    /\ Return(p, [NoResult EXCEPT !.op = "disconnect", !.id = loc[p].id, !.val = "ok"])
    /\ NoGate
    /\ UNCHANGED <<now, sessions, heap, closed, localFS, removedIds, nreq>>

\* RemoveSession: delete(m.sessions, id), the deferred Unlock, return nil
RemoveDelete(p) ==
    /\ pc[p] = "rm_delete"
    /\ sessions' = Delete(loc[p].id)
    /\ removedIds' = removedIds \cup {loc[p].id}
    /\ mu' = NoOne
    /\ Return(p, [NoResult EXCEPT !.op = "disconnect", !.id = loc[p].id, !.val = "ok"])
    /\ NoGate
    /\ UNCHANGED <<now, heap, closed, localFS, nreq>>

(***************************************************************************)
(* ssh_list_sessions: Manager.ListSessions, then Client.ListSessions       *)
(* renders the sessions it got.                                            *)
(***************************************************************************)
\* time.Time.Format(time.RFC3339): the time in whole seconds
FormatRFC3339(t) == t \div TicksPerSecond

\* Manager.ListSessions under RLock: the slice of the *Session in the table.
\* snap records the Sessions as they are when the call returns.
ListSessions(p) ==
    /\ Accept(p)
    /\ mu = NoOne
    /\ LET ptrs == {sessions[id] : id \in DOMAIN sessions} IN
       Goto(p, "render", [NoLocals EXCEPT !.op = "listSessions", !.ptrs = ptrs,
                                          !.snap = [h \in ptrs |-> heap[h]]])
    /\ NoGate
    /\ UNCHANGED <<now, sessions, heap, closed, mu, localFS, removedIds>>

\* one entry of the listing, read through the pointer
RenderSession(sess) ==
    [id |-> sess.ID, host |-> sess.Host, username |-> sess.Username,
     createdAt |-> FormatRFC3339(sess.CreatedAt),
     lastActivity |-> FormatRFC3339(sess.LastActivity)]

\* Client.ListSessions after Manager.ListSessions returned: without the
\* lock it reads the fields of each Session the slice points to
RenderSessions(p) ==
    /\ pc[p] = "render"
    /\ Return(p, [NoResult EXCEPT !.op = "listSessions",
                                  !.list = {RenderSession(heap[h]) : h \in loc[p].ptrs}])
    /\ NoGate
    /\ UNCHANGED <<now, sessions, heap, closed, mu, localFS, removedIds, nreq>>

(***************************************************************************)
(* Manager.CleanupExpiredSessions, run by the cleanup goroutine on every   *)
(* tick of its ticker.                                                     *)
(***************************************************************************)
\* expiry that counts an idle time equal to sessionExpiry as expired
ExpiredAtLimit(sess, t) == t - sess.LastActivity >= sessionExpiry

\* now.Sub(session.LastActivity) > m.sessionExpiry
Expired(sess, t) == t - sess.LastActivity > sessionExpiry

\* the ids the range over m.sessions deletes
ExpiredIds == {id \in DOMAIN sessions : Expired(heap[sessions[id]], now)}

\* CleanupExpiredSessions from Lock to the deferred Unlock.  Every manager
\* method waits at Lock meanwhile, and what the range does to one entry is
\* independent of what it does to another, so the order in which Go visits
\* the entries makes no difference: each expired entry has its Client
\* closed and is deleted, and the count is returned.
CleanupExpiredSessions ==
    /\ mu = NoOne
    /\ closed' = [h \in DOMAIN closed |->
                    IF \E id \in ExpiredIds : heap[sessions[id]].Client = h
                    THEN closed[h] + 1 ELSE closed[h]]
    /\ sessions' = [id \in DOMAIN sessions \ ExpiredIds |-> sessions[id]]
    /\ removedIds' = removedIds \cup ExpiredIds
    /\ res' = [NoResult EXCEPT !.p = Sweeper, !.op = "cleanup",
                               !.n = Cardinality(ExpiredIds)]
    /\ NoGate
    /\ UNCHANGED <<now, heap, mu, pc, loc, localFS, nreq>>

(***************************************************************************)
(* Manager.CleanupRateLimiter, run by the cleanup goroutine of the         *)
(* security manager on every tick of its ticker.                           *)
(***************************************************************************)
\* Manager.CleanupRateLimiter(maxAge) on the manager m at time t: the
\* manager without the entries older than maxAge
CleanupRateLimiter(m, maxAge, t) ==
    [m EXCEPT !.rateLimiter =
        [id \in {i \in DOMAIN @ : ~(t - @[i] > maxAge)} |-> @[id]]]

\* a run of CleanupRateLimiter that removes something
SweepRateLimiter ==
    /\ security' = CleanupRateLimiter(security, rateLimiterMaxAge, now)
    /\ security' # security
    /\ call' = NoCall
    /\ res' = NoResult
    /\ UNCHANGED <<now, sessions, heap, closed, mu, pc, loc, localFS, removedIds,
                   nreq, twin, permitted, exec, run, scp>>

(***************************************************************************)
(* One call of ExecuteCommand, ListDirectory or scpSession, statement by   *)
(* statement, from sess.Client.NewSession() on.                            *)
(***************************************************************************)
\* the calls that open an exec channel
ChannelOps == {"execute", "listDirectory"} \cup ScpOps

\* only exec changes
ExecStep ==
    /\ res' = NoResult
    /\ call' = NoCall
    /\ UNCHANGED <<now, sessions, heap, closed, mu, pc, loc, localFS, removedIds,
                   nreq, security, twin, permitted, run, scp>>

\* a return statement: the deferred calls run next
ExecReturn(e, err) == [e EXCEPT !.pc = "defer", !.err = err]

\* a call of op has resolved its session and is about to open a channel
ExecBegin(op) ==
    /\ exec.pc \in {"idle", "returned"}
    /\ exec' = [NoExec EXCEPT !.op = op, !.pc = "new"]
    /\ ExecStep

\* sshSession, err := sess.Client.NewSession(); defer sshSession.Close()
ExecNewSession(ok) ==
    /\ exec.pc = "new"
    /\ exec' = IF ~ok THEN ExecReturn(exec, "failed to create SSH session")
               ELSE [exec EXCEPT !.opened = @ + 1,
                                 !.defers = Append(@, "sshSession.Close"),
                                 !.pc = IF exec.op = "execute" THEN "run"
                                        ELSE IF exec.op = "listDirectory" THEN "output"
                                        ELSE "stdin"]
    /\ ExecStep

\* ExecuteCommand: go func() { errCh <- sshSession.Run(args.Command) }()
ExecRun ==
    /\ exec.pc = "run"
    /\ exec' = [exec EXCEPT !.starts = @ + 1, !.pc = "select"]
    /\ ExecStep

\* ExecuteCommand: the select on errCh and ctx.Done()
ExecSelect(outcome) ==
    /\ exec.pc = "select"
    /\ outcome \in Outcomes("execute")
    /\ exec' = ExecReturn(exec, OutcomeError("execute", outcome))
    /\ ExecStep

\* ListDirectory: sshSession.CombinedOutput(cmd)
ExecCombinedOutput(outcome) ==
    /\ exec.pc = "output"
    /\ outcome \in Outcomes("listDirectory")
    /\ exec' = ExecReturn([exec EXCEPT !.starts = @ + 1],
                          OutcomeError("listDirectory", outcome))
    /\ ExecStep

\* scpSession: stdinW, err := sshSession.StdinPipe() and the deferred
\* closure that closes stdinW
ExecStdinPipe(ok) ==
    /\ exec.pc = "stdin"
    /\ exec' = IF ~ok THEN ExecReturn(exec, "failed to get stdin pipe")
               ELSE [exec EXCEPT !.pipes = @ + 1, !.stdinW = "pipe",
                                 !.defers = Append(@, "close stdinW"),
                                 !.pc = "stdout"]
    /\ ExecStep

\* scpSession: sshSession.StdoutPipe()
ExecStdoutPipe(ok) ==
    /\ exec.pc = "stdout"
    /\ exec' = IF ~ok THEN ExecReturn(exec, "failed to get stdout pipe")
               ELSE [exec EXCEPT !.pc = "start"]
    /\ ExecStep

\* scpSession: sshSession.Start(scpCommand)
ExecStart(ok) ==
    /\ exec.pc = "start"
    /\ exec' = IF ~ok THEN ExecReturn(exec, "failed to start SCP command")
               ELSE [exec EXCEPT !.starts = @ + 1, !.pc = "f"]
    /\ ExecStep

\* scpSession: err = f(stdinW, stdoutR)
ExecCallback(ferr) ==
    /\ exec.pc = "f"
    /\ exec' = [exec EXCEPT !.ferr = ferr, !.pc = "close"]
    /\ ExecStep

\* scpSession: stdinW.Close(); stdinW = nil; the return on an error of f
\* that is not io.EOF
ExecCloseStdin ==
    /\ exec.pc = "close"
    /\ LET e == [exec EXCEPT !.pipeCloses = @ + 1, !.stdinW = "nil"] IN
       exec' = IF exec.ferr \notin {"", "EOF"}
               THEN ExecReturn(e, "SCP protocol error")
               ELSE [e EXCEPT !.pc = "wait"]
    /\ ExecStep

\* scpSession: sshSession.Wait()
ExecWait(ok) ==
    /\ exec.pc = "wait"
    /\ exec' = ExecReturn(exec, IF ok THEN "" ELSE "SCP command failed")
    /\ ExecStep

\* a deferred closure that closes stdinW without looking at it
ExecDeferCloseAlways ==
    /\ exec.pc = "defer"
    /\ LET n == Len(exec.defers) IN
       exec' = IF n = 0 THEN [exec EXCEPT !.pc = "returned"]
               ELSE IF exec.defers[n] = "close stdinW"
               THEN [exec EXCEPT !.defers = SubSeq(@, 1, n - 1),
                                 !.pipeCloses = @ + 1]
               ELSE [exec EXCEPT !.defers = SubSeq(@, 1, n - 1), !.closes = @ + 1]
    /\ ExecStep

\* after a return statement: the deferred calls run, last one first; then
\* the call has returned
ExecDefer ==
    /\ exec.pc = "defer"
    /\ LET n == Len(exec.defers) IN
       exec' = IF n = 0 THEN [exec EXCEPT !.pc = "returned"]
               ELSE IF exec.defers[n] = "close stdinW"
               THEN [exec EXCEPT !.defers = SubSeq(@, 1, n - 1),
                                 !.pipeCloses = IF exec.stdinW # "nil" THEN @ + 1
                                                ELSE @]
               ELSE [exec EXCEPT !.defers = SubSeq(@, 1, n - 1), !.closes = @ + 1]
    /\ ExecStep

(***************************************************************************)
(* The SCP exchanges, byte by byte.  A byte is a one-character string, or  *)
(* the name of a control byte.  The callback of scpSession sees two pipes: *)
(* what the remote scp sends (in, the part not read yet) and what the      *)
(* callback has written (out); ev lists its reads and writes in order.     *)
(***************************************************************************)
NUL == "NUL"
SOH == "SOH"
STX == "STX"
CR == "CR"
LF == "\n"

\* []byte(s) of a string without control bytes
Bytes(s) == [i \in 1..Len(s) |-> SubSeq(s, i, i)]

\* string(bs)
RECURSIVE Text(_)
Text(bs) == IF bs = <<>> THEN "" ELSE Head(bs) \o Text(Tail(bs))

\* error values: nil, the io.EOF value, and errors made by errors.New and
\* fmt.Errorf, which are never identical to io.EOF whatever their text
Nil == [nil |-> TRUE, eof |-> FALSE, text |-> ""]
ioEOF == [nil |-> FALSE, eof |-> TRUE, text |-> "EOF"]
ErrorsNew(text) == [nil |-> FALSE, eof |-> FALSE, text |-> text]
Errorf(prefix, err) == ErrorsNew(prefix \o err.text)

\* the statements that follow an assignment, applied to the value assigned
Then(v, Rest(_)) == Rest(v)

Pipes(in) == [in |-> in, out |-> <<>>, ev |-> <<>>]

\* w.Write(bs); the write succeeds
Write(p, bs) ==
    [p EXCEPT !.out = @ \o bs, !.ev = Append(@, [op |-> "Write", bytes |-> bs])]

\* r.ReadByte()
ReadByte(p) ==
    IF p.in = <<>>
    THEN [p |-> [p EXCEPT !.ev = Append(@, [op |-> "ReadByte", bytes |-> <<>>])],
          b |-> NUL, err |-> ioEOF]
    ELSE [p |-> [p EXCEPT !.in = Tail(@),
                          !.ev = Append(@, [op |-> "ReadByte", bytes |-> <<Head(p.in)>>])],
          b |-> Head(p.in), err |-> Nil]

\* r.Read(buf) with a buffer of one byte
Read(p) ==
    IF p.in = <<>>
    THEN [p |-> [p EXCEPT !.ev = Append(@, [op |-> "Read", bytes |-> <<>>])],
          b |-> NUL, err |-> ioEOF]
    ELSE [p |-> [p EXCEPT !.in = Tail(@),
                          !.ev = Append(@, [op |-> "Read", bytes |-> <<Head(p.in)>>])],
          b |-> Head(p.in), err |-> Nil]

\* position of the first '\n' of bs, 0 when there is none
LineEnd(bs) ==
    IF \E i \in 1..Len(bs) : bs[i] = LF
    THEN Min({i \in 1..Len(bs) : bs[i] = LF})
    ELSE 0

\* r.ReadString('\n'): the bytes up to and including the delimiter, or what
\* is left together with io.EOF
ReadString(p) ==
    LET n == LineEnd(p.in)
        s == IF n = 0 THEN p.in ELSE SubSeq(p.in, 1, n)
    IN  [p |-> [p EXCEPT !.in = SubSeq(@, Len(s) + 1, Len(@)),
                         !.ev = Append(@, [op |-> "ReadString", bytes |-> s])],
         s |-> s,
         err |-> IF n = 0 THEN ioEOF ELSE Nil]

\* r.ReadLine(): the line without its end-of-line bytes; what is left of a
\* stream that ends without '\n' is a line, an ended stream is io.EOF
ReadLine(p) ==
    LET n == LineEnd(p.in)
        s == IF n = 0 THEN p.in ELSE SubSeq(p.in, 1, n)
        body == IF n = 0 THEN s ELSE SubSeq(s, 1, n - 1)
        line == IF n # 0 /\ body # <<>> /\ body[Len(body)] = CR
                THEN SubSeq(body, 1, Len(body) - 1) ELSE body
    IN  [p |-> [p EXCEPT !.in = SubSeq(@, Len(s) + 1, Len(@)),
                         !.ev = Append(@, [op |-> "ReadLine", bytes |-> s])],
         line |-> line,
         err |-> IF s = <<>> THEN ioEOF ELSE Nil]

\* the first bytes of bs that fit one copy buffer
Chunk(bs) == SubSeq(bs, 1, Min({BufSize, Len(bs)}))

\* an io.Copy that stops after one buffer
CopyOneBuffer(p, src) ==
    IF src = <<>> THEN p ELSE Write(p, Chunk(src))

\* io.Copy(w, src): buffer after buffer until src is exhausted
RECURSIVE Copy(_, _)
Copy(p, src) ==
    IF src = <<>> THEN p
    ELSE Copy(Write(p, Chunk(src)), SubSeq(src, Len(Chunk(src)) + 1, Len(src)))

\* io.CopyN(file, r, n): buffer after buffer until n bytes are copied or
\* the stream ends; nothing is read when n is not positive, and that is
\* not an error
RECURSIVE CopyN(_, _, _)
CopyN(p, file, n) ==
    IF n <= 0 THEN [p |-> p, file |-> file, err |-> Nil]
    ELSE IF p.in = <<>>
         THEN [p |-> [p EXCEPT !.ev = Append(@, [op |-> "CopyN", bytes |-> <<>>])],
               file |-> file, err |-> ioEOF]
         ELSE LET got == SubSeq(p.in, 1, Min({BufSize, n, Len(p.in)}))
              IN  CopyN([p EXCEPT !.in = SubSeq(@, Len(got) + 1, Len(@)),
                                  !.ev = Append(@, [op |-> "CopyN", bytes |-> got])],
                        file \o got, n - Len(got))

\* strings.Split(s, " ")
RECURSIVE Split(_)
Split(bs) ==
    IF \E i \in 1..Len(bs) : bs[i] = " "
    THEN LET i == Min({j \in 1..Len(bs) : bs[j] = " "})
         IN  <<SubSeq(bs, 1, i - 1)>> \o Split(SubSeq(bs, i + 1, Len(bs)))
    ELSE <<bs>>

\* strings.SplitN(s, " ", 3)
SplitN3(bs) ==
    LET all == Split(bs)
    IN  IF Len(all) <= 3 THEN all
        ELSE LET i == Len(all[1]) + Len(all[2]) + 3
             IN  <<all[1], all[2], SubSeq(bs, i, Len(bs))>>

\* strings.TrimRight(s, "\n")
RECURSIVE TrimRight(_)
TrimRight(bs) ==
    IF bs # <<>> /\ bs[Len(bs)] = LF THEN TrimRight(SubSeq(bs, 1, Len(bs) - 1))
    ELSE bs

IsDigits(bs) == bs # <<>> /\ \A i \in 1..Len(bs) : ContainsChar(DigitChars, bs[i])

RECURSIVE Atoi(_)
Atoi(bs) ==
    IF bs = <<>> THEN 0
    ELSE 10 * Atoi(SubSeq(bs, 1, Len(bs) - 1)) + DigitVal(bs[Len(bs)])

\* strconv.ParseInt(s, 10, 64): an optional sign and one or more digits
ParseInt(bs) ==
    IF bs # <<>> /\ bs[1] \in {"+", "-"}
    THEN IF IsDigits(Tail(bs))
         THEN [n |-> IF bs[1] = "-" THEN 0 - Atoi(Tail(bs)) ELSE Atoi(Tail(bs)),
               err |-> Nil]
         ELSE [n |-> 0, err |-> ErrorsNew("strconv.ParseInt: parsing " \o Text(bs) \o ": invalid syntax")]
    ELSE IF IsDigits(bs)
         THEN [n |-> Atoi(bs), err |-> Nil]
         ELSE [n |-> 0, err |-> ErrorsNew("strconv.ParseInt: parsing " \o Text(bs) \o ": invalid syntax")]

\* fmt.Sprintf("%d", n) as bytes
FormatInt(n) == Bytes(ToString(n))

\* a checkSCPStatus that takes any byte for an acknowledgment
checkSCPStatusAnyByte(p) ==
    LET c == ReadByte(p)
    IN  [p |-> c.p, err |-> c.err]

\* checkSCPStatus: one byte; a non-zero one is followed by a message line,
\* which becomes the error
checkSCPStatus(p) ==
    Then(ReadByte(p), LAMBDA c :
    IF ~c.err.nil THEN [p |-> c.p, err |-> c.err]
    ELSE IF c.b # NUL
    THEN Then(ReadLine(c.p), LAMBDA m :
         IF ~m.err.nil
         THEN [p |-> m.p, err |-> Errorf("error reading error message: ", m.err)]
         ELSE [p |-> m.p, err |-> ErrorsNew(Text(m.line))])
    ELSE [p |-> c.p, err |-> Nil])

\* ackSCP
ackSCP(p) == [p |-> Write(p, <<NUL>>), err |-> Nil]

\* scpUploadFile; src is what reading the open file yields, size what Stat
\* reported (a size of 0 is replaced by the length of a temporary copy)
scpUploadFile(filename, src, p, size) ==
    LET size1 == IF size = 0 THEN Len(src) ELSE size
        header == Bytes("C0644 ") \o FormatInt(size1) \o <<" ">> \o Bytes(filename) \o <<LF>>
    IN  Then(checkSCPStatus(Write(p, header)), LAMBDA s1 :
        IF ~s1.err.nil
        THEN [p |-> s1.p, err |-> Errorf("failed to send file header: ", s1.err)]
        ELSE Then(checkSCPStatus(Write(Copy(s1.p, src), <<NUL>>)), LAMBDA s2 :
             IF ~s2.err.nil
             THEN [p |-> s2.p, err |-> Errorf("failed to get final acknowledgment: ", s2.err)]
             ELSE [p |-> s2.p, err |-> Nil]))

\* the callback of Download; file is what has been written to the created
\* local file
DownloadFunc(p) ==
    Then(ReadString(Write(p, <<NUL>>)), LAMBDA h :
    IF ~h.err.nil
    THEN [p |-> h.p, file |-> <<>>, err |-> Errorf("failed to read file header: ", h.err)]
    ELSE IF h.s[1] # "C"
    THEN [p |-> h.p, file |-> <<>>, err |-> ErrorsNew("invalid file header: " \o Text(h.s))]
    ELSE Then(Split(h.s), LAMBDA parts :
    IF Len(parts) < 3
    THEN [p |-> h.p, file |-> <<>>,
          err |-> ErrorsNew("invalid file header format: " \o Text(h.s))]
    ELSE Then(ParseInt(parts[2]), LAMBDA size :
    IF ~size.err.nil
    THEN [p |-> h.p, file |-> <<>>,
          err |-> Errorf("invalid file size in header: ", size.err)]
    ELSE Then(CopyN(Write(h.p, <<NUL>>), <<>>, size.n), LAMBDA c :
    IF ~c.err.nil
    THEN [p |-> c.p, file |-> c.file,
          err |-> Errorf("failed to copy file content: ", c.err)]
    ELSE Then(Read(c.p), LAMBDA st :
    IF ~st.err.nil
    THEN [p |-> st.p, file |-> c.file,
          err |-> Errorf("failed to read status byte: ", st.err)]
    ELSE IF st.b # NUL
    THEN Then(ReadLine(st.p), LAMBDA m :
         IF ~m.err.nil
         THEN [p |-> m.p, file |-> c.file,
               err |-> Errorf("error reading error message: ", m.err)]
         ELSE [p |-> m.p, file |-> c.file,
               err |-> ErrorsNew("SCP protocol error: " \o Text(m.line))])
    ELSE [p |-> Write(st.p, <<NUL>>), file |-> c.file, err |-> Nil])))))

\* whether scpSession goes on to sshSession.Wait after its callback returned
Waits(r) == ~(~r.err.nil /\ r.err # ioEOF)

\* scpSession from the return of its callback on: an error of the callback
\* other than io.EOF is returned, otherwise the result of sshSession.Wait,
\* with what the remote command wrote to its standard error when that is
\* not empty
scpSession(r, wait, stderr) ==
    IF ~Waits(r)
    THEN Errorf("SCP protocol error: ", r.err)
    ELSE IF ~wait.nil
         THEN IF Len(stderr) > 0
              THEN ErrorsNew("SCP command failed: " \o wait.text
                                 \o ", stderr: " \o stderr)
              ELSE Errorf("SCP command failed: ", wait)
         ELSE Nil

\* a directory as Readdir returns it: its entries in the order of the
\* enumeration, each a file, a directory or a symbolic link.  dir is
\* entry.IsDir(), link the ModeSymlink bit, size is entry.Size(); for a link
\* toDir tells whether it resolves to a directory, and data or entries are
\* what opening the link yields
File(name, data) ==
    [name |-> name, dir |-> FALSE, link |-> FALSE, toDir |-> FALSE,
     size |-> Len(data), data |-> data, entries |-> <<>>]
Dir(name, entries) ==
    [name |-> name, dir |-> TRUE, link |-> FALSE, toDir |-> FALSE,
     size |-> 0, data |-> <<>>, entries |-> entries]
Symlink(name, target, size) ==
    [name |-> name, dir |-> FALSE, link |-> TRUE, toDir |-> target.dir,
     size |-> size, data |-> target.data, entries |-> target.entries]

\* scpUploadDirEntries and scpUploadDirProtocol (its callback reads the
\* entries of the directory and uploads them)
RECURSIVE scpUploadDirEntries(_, _)
RECURSIVE scpUploadDirProtocol(_, _, _)
scpUploadDirEntries(entries, p) ==
    IF entries = <<>> THEN [p |-> p, err |-> Nil]
    ELSE Then(Head(entries), LAMBDA entry :
         Then(entry.link /\ entry.toDir, LAMBDA isSymlinkToDir :
         Then(IF ~entry.dir /\ ~isSymlinkToDir
              THEN scpUploadFile(entry.name, entry.data, p, entry.size)
              ELSE scpUploadDirProtocol(entry.name, p, entry.entries), LAMBDA r :
         IF ~r.err.nil THEN r
         ELSE scpUploadDirEntries(Tail(entries), r.p))))

\* a scpUploadDirProtocol that does not end the directory
scpUploadDirProtocolNoEnd(dirName, p, entries) ==
    Then(checkSCPStatus(Write(p, Bytes("D0755 0") \o <<" ">> \o Bytes(dirName) \o <<LF>>)),
         LAMBDA s :
    IF ~s.err.nil THEN s ELSE scpUploadDirEntries(entries, s.p))

scpUploadDirProtocol(dirName, p, entries) ==
    Then(checkSCPStatus(Write(p, Bytes("D0755 0") \o <<" ">> \o Bytes(dirName) \o <<LF>>)),
         LAMBDA s :
    IF ~s.err.nil THEN s
    ELSE Then(scpUploadDirEntries(entries, s.p), LAMBDA f :
         IF ~f.err.nil THEN f
         ELSE [p |-> Write(f.p, <<"E", LF>>), err |-> Nil]))

\* an UploadDir callback that wraps the entries in a D header and an E
\* marker whether the path ends with a slash or not
UploadDirFuncAlwaysWraps(base, slash, entries, p) ==
    Then(ReadByte(p), LAMBDA c :
    IF ~c.err.nil
    THEN [p |-> c.p, err |-> Errorf("failed to read status: ", c.err)]
    ELSE IF c.b # NUL
    THEN Then(ReadLine(c.p), LAMBDA m :
         IF ~m.err.nil
         THEN [p |-> m.p, err |-> Errorf("error reading error message: ", m.err)]
         ELSE [p |-> m.p, err |-> ErrorsNew(Text(m.line))])
    ELSE scpUploadDirProtocol(base, c.p, entries))

\* the callback of UploadDir for the local directory named base, given with
\* or without a trailing slash
UploadDirFunc(base, slash, entries, p) ==
    Then(ReadByte(p), LAMBDA c :
    IF ~c.err.nil
    THEN [p |-> c.p, err |-> Errorf("failed to read status: ", c.err)]
    ELSE IF c.b # NUL
    THEN Then(ReadLine(c.p), LAMBDA m :
         IF ~m.err.nil
         THEN [p |-> m.p, err |-> Errorf("error reading error message: ", m.err)]
         ELSE [p |-> m.p, err |-> ErrorsNew(Text(m.line))])
    ELSE IF ~slash
    THEN Then(checkSCPStatus(Write(c.p, Bytes("D0755 0") \o <<" ">> \o Bytes(base) \o <<LF>>)),
              LAMBDA s :
         IF ~s.err.nil THEN s
         ELSE Then(scpUploadDirEntries(entries, s.p), LAMBDA f :
              IF ~f.err.nil THEN f
              ELSE [p |-> Write(f.p, <<"E", LF>>), err |-> Nil]))
    ELSE scpUploadDirEntries(entries, c.p))

\* a file system below some directory: the contents of its files by
\* relative path, and the relative paths of its directories
NoFiles == [files |-> <<>>, dirs |-> {}]
WriteFile(fs, path, data) == [fs EXCEPT !.files = (path :> data) @@ @]
\* os.MkdirAll(path): the directories on the way that are not there are
\* made; the destination and the directories above it are there
MkdirAll(fs, path) ==
    [fs EXCEPT !.dirs = @ \cup {SubSeq(path, 1, n) :
                                    n \in {k \in 1..Len(path) : \E i \in 1..k : path[i] # ".."}}]

\* strings.Split(name, "/"): the elements of a path
RECURSIVE SplitPath(_)
SplitPath(bs) ==
    IF \E i \in 1..Len(bs) : bs[i] = "/"
    THEN LET i == Min({j \in 1..Len(bs) : bs[j] = "/"})
         IN  <<Text(SubSeq(bs, 1, i - 1))>> \o SplitPath(SubSeq(bs, i + 1, Len(bs)))
    ELSE <<Text(bs)>>

\* filepath.Clean on the elements todo that follow the cleaned path done:
\* empty elements and "." are dropped, ".." removes the element before it
\* and stays where there is none to remove
RECURSIVE Clean(_, _)
Clean(done, todo) ==
    IF todo = <<>> THEN done
    ELSE IF Head(todo) \in {"", "."} THEN Clean(done, Tail(todo))
    ELSE IF Head(todo) = ".." /\ done # <<>> /\ done[Len(done)] # ".."
    THEN Clean(SubSeq(done, 1, Len(done) - 1), Tail(todo))
    ELSE Clean(Append(done, Head(todo)), Tail(todo))

\* filepath.Join(path, name); paths are relative to the local destination
\* directory, so that a path that starts with ".." lies outside it
FilepathJoin(path, name) == Clean(path, SplitPath(name))

\* the directories that are there: the destination, those above it and
\* those made
DirExists(fs, path) ==
    \/ \A i \in 1..Len(path) : path[i] = ".."
    \/ path \in fs.dirs

\* the error of os.Create(path), Nil when the file is created
Create(fs, path) ==
    IF DirExists(fs, path) THEN ErrorsNew("open: is a directory")
    ELSE IF ~DirExists(fs, SubSeq(path, 1, Len(path) - 1))
    THEN ErrorsNew("open: no such file or directory")
    ELSE Nil

\* the error of os.MkdirAll(path), Nil when the directories are there
MkdirAllError(fs, path) ==
    IF \E n \in 1..Len(path) : SubSeq(path, 1, n) \in DOMAIN fs.files
    THEN ErrorsNew("mkdir: not a directory")
    ELSE Nil

\* scpDownloadDir: one header after the other until the stream ends or the
\* directory does
RECURSIVE scpDownloadDir(_, _, _, _)
scpDownloadDir(destPath, p, fs, stripName) ==
    Then(ReadString(p), LAMBDA h :
    Then(SplitN3(h.s), LAMBDA parts :
    Then(ackSCP(h.p).p, LAMBDA ack :
    LET header == h.s
        name == TrimRight(parts[3])
        filePath == FilepathJoin(destPath, name)
        dirPath == IF stripName THEN destPath ELSE FilepathJoin(destPath, name)
    IN  IF ~h.err.nil THEN [p |-> h.p, fs |-> fs, err |-> Nil]
        ELSE IF header[1] = "E" THEN [p |-> ack, fs |-> fs, err |-> Nil]
        ELSE IF header[1] = "T" THEN scpDownloadDir(destPath, ack, fs, stripName)
        ELSE IF header[1] = "C"
        THEN IF Len(parts) # 3
             THEN [p |-> h.p, fs |-> fs,
                   err |-> ErrorsNew("invalid file header: " \o Text(header))]
             ELSE Then(ParseInt(parts[2]), LAMBDA size :
             IF ~size.err.nil
             THEN [p |-> h.p, fs |-> fs,
                   err |-> Errorf("invalid file size in header: ", size.err)]
             ELSE IF ~Create(fs, filePath).nil
             THEN [p |-> ack, fs |-> fs, err |-> Create(fs, filePath)]
             ELSE Then(CopyN(ack, <<>>, size.n), LAMBDA c :
             Then(WriteFile(fs, filePath, c.file), LAMBDA created :
             IF ~c.err.nil THEN [p |-> c.p, fs |-> created, err |-> c.err]
             ELSE Then(checkSCPStatus(c.p), LAMBDA st :
             IF ~st.err.nil THEN [p |-> st.p, fs |-> created, err |-> st.err]
             ELSE scpDownloadDir(destPath, ackSCP(st.p).p, created, stripName)))))
        ELSE IF header[1] = "D"
        THEN IF Len(parts) # 3
             THEN [p |-> h.p, fs |-> fs,
                   err |-> ErrorsNew("invalid directory header: " \o Text(header))]
             ELSE IF ~MkdirAllError(fs, dirPath).nil
             THEN [p |-> ack, fs |-> fs, err |-> MkdirAllError(fs, dirPath)]
             ELSE Then(scpDownloadDir(dirPath, ack, MkdirAll(fs, dirPath), FALSE), LAMBDA sub :
             IF ~sub.err.nil THEN sub
             ELSE scpDownloadDir(destPath, sub.p, sub.fs, stripName))
        ELSE IF header[1] \in {SOH, STX}
        THEN scpDownloadDir(destPath, h.p, fs, stripName)
        ELSE [p |-> h.p, fs |-> fs,
              err |-> ErrorsNew("unsupported scp command: " \o Text(header))])))

\* the callback of DownloadDir, the local directory being there
DownloadDirFunc(p) == scpDownloadDir(<<>>, Write(p, <<NUL>>), NoFiles, TRUE)

(***************************************************************************)
(* The remote scp program the exchanges are held with, when it conforms to *)
(* the protocol: as sink ("scp -t", "scp -rt") it reads records and        *)
(* answers each with one byte, as source ("scp -f", "scp -rf") it sends    *)
(* records and awaits one byte after each.                                 *)
(***************************************************************************)
NULs(n) == [i \in 1..n |-> NUL]

OctalChars == "01234567"
IsMode(bs) == Len(bs) = 4 /\ \A i \in 1..4 : ContainsChar(OctalChars, bs[i])
IsName(bs) == bs # <<>> /\ \A i \in 1..Len(bs) : bs[i] \notin {"/", LF, NUL}

\* the sink before it has read anything: it has sent its first byte; need
\* tells for each byte it sends how many bytes it had read by then, open
\* lists the directories it has entered, fs is what is at its target
\* (below it, when the target is a directory that exists)
SinkStart(targetIsDir) ==
    [fs |-> NoFiles, targetIsDir |-> targetIsDir, open |-> <<>>,
     replies |-> <<NUL>>, need |-> <<0>>, pos |-> 0, ok |-> TRUE]

\* the directory the sink writes into
Cwd(st) == IF st.open = <<>> THEN <<>> ELSE st.open[Len(st.open)]

SinkReject(st) ==
    [st EXCEPT !.ok = FALSE,
               !.replies = @ \o <<SOH>> \o Bytes("scp: protocol error") \o <<LF>>,
               !.need = @ \o [i \in 1..(Len(Bytes("scp: protocol error")) + 2) |-> st.pos]]

\* the sink reads the bytes bs with which the stream ends
RECURSIVE Sink(_, _, _)
Sink(bs, st, recursive) ==
    LET n == LineEnd(bs)
        line == SubSeq(bs, 1, n - 1)
        rest == SubSeq(bs, n + 1, Len(bs))
        parts == SplitN3(line)
        wellFormed == /\ Len(parts) = 3
                      /\ IsMode(Tail(parts[1]))
                      /\ IsDigits(parts[2])
                      /\ IsName(parts[3])
        size == Atoi(parts[2])
        path == Append(Cwd(st), Text(parts[3]))
        \* a directory sent to a target that does not exist becomes the target
        made == IF st.open = <<>> /\ ~st.targetIsDir THEN <<>> ELSE path
    IN  IF bs = <<>> THEN st
        ELSE IF n \in {0, 1} THEN SinkReject(st)
        ELSE IF /\ line[1] = "C" /\ wellFormed /\ Len(rest) > size /\ rest[size + 1] = NUL
                /\ st.open # <<>> \/ st.targetIsDir
        THEN Sink(SubSeq(rest, size + 2, Len(rest)),
                  [st EXCEPT !.fs = WriteFile(@, path, SubSeq(rest, 1, size)),
                             !.replies = @ \o <<NUL, NUL>>,
                             !.need = @ \o <<st.pos + n, st.pos + n + size + 1>>,
                             !.pos = @ + n + size + 1],
                  recursive)
        ELSE IF line[1] = "D" /\ wellFormed /\ recursive
        THEN Sink(rest,
                  [st EXCEPT !.fs = MkdirAll(@, made), !.open = Append(@, made),
                             !.targetIsDir = TRUE,
                             !.replies = Append(@, NUL),
                             !.need = Append(@, st.pos + n),
                             !.pos = @ + n],
                  recursive)
        ELSE IF line = <<"E">> /\ st.open # <<>>
        THEN Sink(rest,
                  [st EXCEPT !.open = SubSeq(@, 1, Len(@) - 1),
                             !.replies = Append(@, NUL),
                             !.need = Append(@, st.pos + n),
                             !.pos = @ + n],
                  recursive)
        ELSE SinkReject(st)

\* what the source sends for a file or a directory, once it has received
\* acks bytes: need tells for each byte how many bytes the source has
\* received before it sends it, acks how many it has received in the end
RECURSIVE Source(_, _)
RECURSIVE SourceEntries(_, _)
Source(node, acks) ==
    IF ~node.dir
    THEN LET header == Bytes("C0644 ") \o FormatInt(Len(node.data)) \o <<" ">>
                       \o Bytes(node.name) \o <<LF>>
         IN  [bytes |-> header \o node.data \o <<NUL>>,
              need |-> [i \in 1..Len(header) |-> acks]
                       \o [i \in 1..(Len(node.data) + 1) |-> acks + 1],
              acks |-> acks + 2]
    ELSE LET header == Bytes("D0755 0 ") \o Bytes(node.name) \o <<LF>>
         IN  Then(SourceEntries(node.entries, acks + 1), LAMBDA inner :
             [bytes |-> header \o inner.bytes \o <<"E", LF>>,
              need |-> [i \in 1..Len(header) |-> acks] \o inner.need
                       \o <<inner.acks, inner.acks>>,
              acks |-> inner.acks + 1])

SourceEntries(entries, acks) ==
    IF entries = <<>> THEN [bytes |-> <<>>, need |-> <<>>, acks |-> acks]
    ELSE Then(Source(Head(entries), acks), LAMBDA first :
         Then(SourceEntries(Tail(entries), first.acks), LAMBDA others :
         [bytes |-> first.bytes \o others.bytes,
          need |-> first.need \o others.need,
          acks |-> others.acks]))

\* for each byte the callback has read, in order, the number of bytes it
\* had written by then
RECURSIVE WrittenAtReads(_, _)
WrittenAtReads(ev, written) ==
    IF ev = <<>> THEN <<>>
    ELSE IF Head(ev).op = "Write"
         THEN WrittenAtReads(Tail(ev), written + Len(Head(ev).bytes))
         ELSE [i \in 1..Len(Head(ev).bytes) |-> written]
              \o WrittenAtReads(Tail(ev), written)

\* the callback read no byte before the peer could have sent it: the peer
\* sent the stream sent, its i-th byte after having received need[i] bytes
InOrder(ev, sent, need) ==
    LET at == WrittenAtReads(ev, 0)
    IN  /\ Len(at) <= Len(sent)
        /\ \A i \in 1..Len(at) : need[i] <= at[i]

\* the local files and directories of a directory as enumerated
RECURSIVE Flatten(_, _, _)
Flatten(entries, path, fs) ==
    IF entries = <<>> THEN fs
    ELSE LET e == Head(entries)
             here == Append(path, e.name)
         IN  Flatten(Tail(entries), path,
                     IF e.dir THEN Flatten(e.entries, here, MkdirAll(fs, here))
                     ELSE WriteFile(fs, here, e.data))

\* the names directly below a directory of a file system, and the directory
\* as the source enumerates it when it takes names in the order rank
Children(fs, path) ==
    {q[Len(path) + 1] : q \in {q \in (DOMAIN fs.files) \cup fs.dirs :
                                   /\ Len(q) > Len(path)
                                   /\ SubSeq(q, 1, Len(path)) = path}}

RECURSIVE Enumerate(_, _, _)
Enumerate(fs, path, rank) ==
    LET names == {i \in 1..Len(rank) : rank[i] \in Children(fs, path)}
        Nth(k) == rank[CHOOSE i \in names : Cardinality({j \in names : j < i}) = k - 1]
    IN  [k \in 1..Cardinality(names) |->
            LET here == Append(path, Nth(k))
            IN  IF here \in fs.dirs THEN Dir(Nth(k), Enumerate(fs, here, rank))
                ELSE File(Nth(k), fs.files[here])]

(***************************************************************************)
(* ListDirectory from the output of "ls -la" to the entries it returns.    *)
(***************************************************************************)
\* strings.Split(s, "\n")
RECURSIVE SplitLines(_)
SplitLines(bs) ==
    IF LineEnd(bs) = 0 THEN <<bs>>
    ELSE <<SubSeq(bs, 1, LineEnd(bs) - 1)>>
         \o SplitLines(SubSeq(bs, LineEnd(bs) + 1, Len(bs)))

\* the white space strings.Fields splits at
IsSpace(b) == b \in {" ", "\t", LF, CR}

\* strings.Fields(s)
RECURSIVE Fields(_)
Fields(bs) ==
    IF bs = <<>> THEN <<>>
    ELSE IF IsSpace(bs[1]) THEN Fields(Tail(bs))
    ELSE LET n == IF \E i \in 1..Len(bs) : IsSpace(bs[i])
                  THEN Min({i \in 1..Len(bs) : IsSpace(bs[i])})
                  ELSE Len(bs) + 1
         IN  <<Text(SubSeq(bs, 1, n - 1))>> \o Fields(SubSeq(bs, n, Len(bs)))

\* strings.Join(elems, sep)
RECURSIVE Join(_, _)
Join(elems, sep) ==
    IF elems = <<>> THEN ""
    ELSE IF Len(elems) = 1 THEN elems[1]
    ELSE elems[1] \o sep \o Join(Tail(elems), sep)

\* strings.HasPrefix(s, prefix) on bytes
HasPrefixBytes(bs, prefix) ==
    Len(bs) >= Len(prefix) /\ SubSeq(bs, 1, Len(prefix)) = prefix

\* an entry whose name is the ninth field alone
ListingEntryNinthField(fields) ==
    [name |-> fields[9],
     permissions |-> fields[1],
     size |-> fields[5],
     date |-> Join(SubSeq(fields, 6, 8), " "),
     isDirectory |-> IF SubSeq(fields[1], 1, 1) = "d" THEN "true" ELSE "false"]

\* the map ListDirectory appends for a line with the given fields
ListingEntry(fields) ==
    [name |-> Join(SubSeq(fields, 9, Len(fields)), " "),
     permissions |-> fields[1],
     size |-> fields[5],
     date |-> Join(SubSeq(fields, 6, 8), " "),
     isDirectory |-> IF SubSeq(fields[1], 1, 1) = "d" THEN "true" ELSE "false"]

\* the loop of ListDirectory over the lines of the output
RECURSIVE ParseLines(_)
ParseLines(lines) ==
    IF lines = <<>> THEN <<>>
    ELSE LET line == Head(lines)
             fields == Fields(line)
         IN  IF line = <<>> \/ HasPrefixBytes(line, Bytes("total "))
             THEN ParseLines(Tail(lines))
             ELSE IF Len(fields) < 9 THEN ParseLines(Tail(lines))
             ELSE <<ListingEntry(fields)>> \o ParseLines(Tail(lines))

\* ListDirectory from the return of CombinedOutput without error
ParseListing(output) == ParseLines(SplitLines(output))

\* the lines "ls -la" prints, as the fields they consist of, and the white
\* space it puts between fields
ListingLines ==
    {<<"total", "16">>,
     <<"drwxr-xr-x", "2", "user", "group", "4096", "Jan", "1", "12:34", "dir1">>,
     <<"-rw-r--r--", "1", "user", "group", "123", "Jan", "1", "12:34", "file1.txt">>,
     <<"-rw-r--r--", "1", "u", "g", "5", "Jan", "1", "12:34", "my", "file.txt">>,
     <<"lrwxrwxrwx", "1", "u", "g", "4", "Jan", "1", "12:34">>,
     <<"total", "1", "2", "3", "4", "5", "6", "7", "8", "9">>,
     <<"totally", "1", "u", "g", "5", "Jan", "1", "12:34", "x">>,
     <<>>}
Gaps == {" ", "  ", "\t"}
Listings == UNION {[1..n -> ListingLines] : n \in 1..MaxLines}

\* the output with the given lines, each ended by '\n'
RECURSIVE Render(_, _)
Render(lines, gap) ==
    IF lines = <<>> THEN <<>>
    ELSE Bytes(Join(Head(lines), gap)) \o <<LF>> \o Render(Tail(lines), gap)

\* ListDirectory for a command that printed the given lines
CallListDirectory(lines, gap) ==
    /\ call = NoCall
    /\ call' = [fn |-> "ListDirectory", arg |-> [lines |-> lines, gap |-> gap],
                ret |-> ParseListing(Render(lines, gap))]
    /\ res' = NoResult
    /\ UNCHANGED <<now, sessions, heap, closed, mu, pc, loc, localFS, removedIds,
                   nreq, security, twin, permitted, exec, run, scp>>

(***************************************************************************)
(* The four transfers from the callback of scpSession to their return,     *)
(* held with a peer that sends any of the streams below.                   *)
(***************************************************************************)
\* bytes files are made of, and file contents: empty, one byte, up to one
\* byte more than a copy buffer holds
DataBytes == {"a", NUL, LF}
FileContents == UNION {[1..n -> DataBytes] : n \in 0..(BufSize + 1)}
SomeContents == {<<>>, <<"a">>, <<NUL, LF>>, [i \in 1..(BufSize + 1) |-> "a"]}

\* message lines a peer sends after a non-zero byte
Messages == {"", "EOF", "denied"}

\* what sshSession.Wait returns
WaitOutcomes == {Nil, ErrorsNew("Process exited with status 1")}

\* what the remote command has written to its standard error by then
Stderrs == {"", "scp: d: not a regular file"}

\* the streams a peer may send instead of the stream base: base itself, base
\* cut short, and base with one of its zero bytes replaced by a non-zero
\* byte that is followed by a message line, by a message without an end of
\* line, or by nothing
Faulty(base) ==
    {base}
    \cup {SubSeq(base, 1, k) : k \in 0..Len(base)}
    \cup UNION {{SubSeq(base, 1, k - 1) \o <<c>> \o Bytes(m) \o <<LF>>
                    \o SubSeq(base, k + 1, Len(base)),
                 SubSeq(base, 1, k - 1) \o <<c>> \o Bytes(m)} :
                    k \in {i \in 1..Len(base) : base[i] = NUL},
                    c \in {SOH, STX}, m \in Messages}

\* the directories that are uploaded, in both orders of enumeration
LocalDirs ==
    {<<>>, <<File("a", <<"a">>)>>}
    \cup UNION {{<<File("a", x), Dir("d", <<File("b", y), Dir("d", <<File("a", <<>>)>>)>>)>>,
                 <<Dir("d", <<Dir("d", <<File("a", <<>>)>>), File("b", y)>>), File("a", x)>>} :
                    x \in SomeContents, y \in SomeContents}

\* the directories uploaded to a peer that sends any stream
FaultDirs ==
    {<<File("a", <<"a">>)>>,
     <<Dir("d", <<File("b", <<>>)>>), File("a", [i \in 1..(BufSize + 1) |-> "a"])>>,
     <<Symlink("l", Dir("d", <<File("b", <<"a">>)>>), LinkSize)>>}

\* the number of bytes a conforming sink sends while it receives a
\* directory: one for every header, file body and end of directory
RECURSIVE Replies(_)
Replies(entries) ==
    IF entries = <<>> THEN 0
    ELSE 2 + (IF Head(entries).dir \/ Head(entries).toDir
              THEN Replies(Head(entries).entries) ELSE 0)
           + Replies(Tail(entries))

\* streams sent to an upload of a file, to an upload of a directory, to a
\* download of a file and to a download of a directory
UploadStreams == Faulty(NULs(3))
UploadDirStreams(entries) == Faulty(NULs(3 + Replies(entries)))
Headers ==
    {Bytes(h) \o <<LF>> :
        h \in {"C0644 -1 f", "C0644 +1 f", "C0644 x f", "C0644 1", "C0644  1 f",
               "D0755 0 f", "E", "0644 1 f", "C06441 f"}}
DownloadStreams ==
    UNION {Faulty(Source(File("f", x), 1).bytes) : x \in SomeContents}
    \cup {h \o rest : h \in Headers, rest \in {<<>>, <<NUL>>, <<"a", NUL>>}}
\* a line of the protocol
Line(s) == Bytes(s) \o <<LF>>

\* streams of a source that does not conform: a warning line where a header
\* is awaited, a negative size, and names with "..", "." and "/" in them
OddStreams ==
    {Line("D0755 0 d") \o <<SOH>> \o Line("warning") \o Line("C0644 1 a") \o <<"a", NUL>>
         \o <<STX>> \o Line("") \o Line("E"),
     Line("D0755 0 d") \o Line("C0644 -1 a") \o <<NUL>> \o Line("E"),
     Line("D0755 0 d") \o Line("C0644 1 ../a") \o <<"a", NUL>> \o Line("E"),
     Line("D0755 0 d") \o Line("D0755 0 ..") \o Line("C0644 1 a") \o <<"a", NUL>>
         \o Line("E") \o Line("E"),
     Line("D0755 0 d") \o Line("D0755 0 e/../../b") \o Line("E") \o Line("E"),
     Line("D0755 0 ..") \o Line("D0755 0 .") \o Line("C0644 1 /a") \o <<"a", NUL>>
         \o Line("E") \o Line("E"),
     Line("D0755 0 d") \o Line("C0644 1 e/a") \o <<"a", NUL>> \o Line("E"),
     Line("D0755 0 d") \o Line("C0644 1 a") \o <<"a", NUL>> \o Line("D0755 0 a") \o Line("E")
         \o Line("E"),
     Line("D0755 0 d") \o Line("C0644 0 .") \o <<NUL>> \o Line("E")}

DownloadDirStreams ==
    UNION {Faulty(Source(Dir("d", <<File("a", x), Dir("e", <<File("b", <<"a">>)>>)>>), 1).bytes) :
              x \in {<<>>, <<"a">>, [i \in 1..(BufSize + 1) |-> "a"]}}
    \cup {Bytes("T0 0 0 0") \o <<LF>> \o Source(File("f", <<"a">>), 1).bytes,
          Bytes("X") \o <<LF>>}
    \cup OddStreams

\* a transfer is made on a channel of its own, and only scp changes
ScpStep ==
    /\ scp = NoScp
    /\ res' = NoResult
    /\ call' = NoCall
    /\ UNCHANGED <<now, sessions, heap, closed, mu, pc, loc, localFS, removedIds,
                   nreq, security, twin, permitted, exec, run>>

\* what a transfer leaves: the bytes the peer sent and the callback wrote,
\* the reads and writes of the callback in order, the error of the callback
\* and of the operation, whether sshSession.Wait was called, what it returned
\* and the standard error read, and the local file or directory written
Transfer(op, src, sent, r, local, wait, stderr) ==
    [op |-> op, src |-> src, sent |-> sent, out |-> r.p.out, ev |-> r.p.ev,
     cb |-> r.err, waited |-> Waits(r), err |-> scpSession(r, wait, stderr),
     local |-> local, wait |-> wait, stderr |-> stderr]

\* Upload of the local file src as the remote file f
UploadExchange(src, sent, wait, stderr) ==
    /\ ScpStep
    /\ scp' = Transfer("Upload", src, sent,
                       scpUploadFile("f", src, Pipes(sent), Len(src)), <<>>, wait, stderr)

\* Download into a local file that os.Create has made
DownloadExchange(sent, wait, stderr) ==
    /\ ScpStep
    /\ scp' = Then(DownloadFunc(Pipes(sent)), LAMBDA r :
                  Transfer("Download", <<>>, sent, r, r.file, wait, stderr))

\* UploadDir of the local directory d, given with or without trailing slash
UploadDirExchange(entries, slash, sent, wait, stderr) ==
    /\ ScpStep
    /\ scp' = Transfer("UploadDir", entries, sent,
                       UploadDirFunc("d", slash, entries, Pipes(sent)), NoFiles, wait, stderr)
              @@ [slash |-> slash]

\* DownloadDir into a local directory that is there
DownloadDirExchange(sent, wait, stderr) ==
    /\ ScpStep
    /\ scp' = Then(DownloadDirFunc(Pipes(sent)), LAMBDA r :
                  Transfer("DownloadDir", <<>>, sent, r, r.fs, wait, stderr))

(***************************************************************************)
(* An upload followed by a download of what was uploaded, both held with   *)
(* the conforming peer.                                                    *)
(***************************************************************************)
\* the orders in which the source may enumerate the names of a directory
Names == {"a", "b", "d"}
Ranks == {s \in [1..Cardinality(Names) -> Names] : \A i, j \in 1..Len(s) : s[i] = s[j] => i = j}

\* the exit status of a peer as sshSession.Wait reports it
ExitStatus(ok) == IF ok THEN Nil ELSE ErrorsNew("Process exited with status 1")

\* Upload of the local file src to the remote path f, then Download of f:
\* the sink answers what the upload writes, and the source sends what the
\* sink has stored
FileRoundTrip(src) ==
    /\ ScpStep
    /\ scp' =
           Then(scpUploadFile("f", src, Pipes(NULs(3)), Len(src)), LAMBDA probe :
           Then(Sink(probe.p.out, SinkStart(TRUE), FALSE), LAMBDA sink :
           Then(scpUploadFile("f", src, Pipes(sink.replies), Len(src)), LAMBDA up :
           Then(<<"f">> \in DOMAIN sink.fs.files, LAMBDA stored :
           Then(Source(File("f", IF stored THEN sink.fs.files[<<"f">>] ELSE <<>>), 1),
                LAMBDA source :
           Then(DownloadFunc(Pipes(source.bytes)), LAMBDA down :
                  [op |-> "FileRoundTrip", src |-> src,
                   upload |-> scpSession(up, ExitStatus(sink.ok), ""),
                   uploadInOrder |-> InOrder(up.p.ev, sink.replies, sink.need),
                   remote |-> sink.fs,
                   download |-> IF stored
                                THEN scpSession(down, ExitStatus(down.p.out = NULs(source.acks)), "")
                                ELSE ErrorsNew("scp: f: No such file or directory"),
                   downloadInOrder |-> InOrder(down.p.ev, source.bytes, source.need),
                   local |-> IF stored THEN down.file ELSE <<>>]))))))

\* UploadDir of the local directory d to the remote directory r, which
\* exists or not, then DownloadDir of the remote copy into a fresh local
\* directory; the source enumerates every directory in the order rank.
\* The copy is r/d when r exists and d is given without trailing slash, and
\* r otherwise; contents are uploaded into a directory that exists.
DirRoundTrip(entries, slash, exists, rank) ==
    /\ ScpStep
    /\ slash => exists
    /\ scp' =
           Then(UploadDirFunc("d", slash, entries, Pipes(NULs(3 + Replies(entries)))),
                LAMBDA probe :
           Then(Sink(probe.p.out, SinkStart(exists), TRUE), LAMBDA sink :
           Then(UploadDirFunc("d", slash, entries, Pipes(sink.replies)), LAMBDA up :
           Then(IF slash \/ ~exists THEN <<>> ELSE <<"d">>, LAMBDA copy :
           Then(sink.targetIsDir /\ (copy = <<>> \/ copy \in sink.fs.dirs), LAMBDA stored :
           Then(Source(Dir(IF copy = <<>> THEN "r" ELSE "d",
                           IF stored THEN Enumerate(sink.fs, copy, rank) ELSE <<>>), 1),
                LAMBDA source :
           Then(DownloadDirFunc(Pipes(source.bytes)), LAMBDA down :
                  [op |-> "DirRoundTrip", src |-> entries, slash |-> slash,
                   exists |-> exists, rank |-> rank,
                   upload |-> scpSession(up, ExitStatus(sink.ok), ""),
                   uploadInOrder |-> InOrder(up.p.ev, sink.replies, sink.need),
                   remote |-> sink.fs,
                   download |-> IF stored
                                THEN scpSession(down, ExitStatus(down.p.out = NULs(source.acks)), "")
                                ELSE ErrorsNew("scp: d: No such file or directory"),
                   downloadInOrder |-> InOrder(down.p.ev, source.bytes, source.need),
                   local |-> IF stored THEN down.fs ELSE NoFiles])))))))

(***************************************************************************)
(* ssh_execute from the handler to the return of Client.ExecuteCommand,    *)
(* with the deadline and the goroutine that runs the command.              *)
(***************************************************************************)
\* the SSHCommandArgs the ssh_execute handler builds from a request with the
\* given "timeout" argument: SessionID and Command are set, Timeout is not
HandlerArgs(timeout) == [Timeout |-> 0]

\* ExecuteCommand: if args.Timeout <= 0 { args.Timeout = 30 }
EffectiveTimeout(argsTimeout) ==
    IF argsTimeout <= 0 THEN DefaultTimeout ELSE argsTimeout

\* only run changes
RunStep ==
    /\ res' = NoResult
    /\ call' = NoCall
    /\ UNCHANGED <<now, sessions, heap, closed, mu, pc, loc, localFS, removedIds,
                   nreq, security, twin, permitted, exec, scp>>

\* an ssh_execute request with the given timeout passed the gate and
\* ExecuteCommand opened its channel: the context with the deadline is
\* created and the goroutine that calls sshSession.Run is started
HandleExecute(timeout) ==
    /\ run.pc \in {"idle", "returned"}
    /\ run.worker \in {"none", "done"}
    /\ run' = [NoRun EXCEPT !.pc = "select",
                            !.requested = timeout,
                            !.deadline = EffectiveTimeout(HandlerArgs(timeout).Timeout),
                            !.worker = "running",
                            !.remote = "running"]
    /\ RunStep

\* a second passes while the caller waits in the select
SecondPasses ==
    /\ run.pc = "select"
    /\ run.elapsed < run.deadline
    /\ run' = [run EXCEPT !.elapsed = @ + 1]
    /\ RunStep

\* the remote command ends, with exit status 0 or not
RemoteEnds(ok) ==
    /\ run.remote = "running"
    /\ run' = [run EXCEPT !.remote = IF ok THEN "ended" ELSE "failed"]
    /\ RunStep

\* a goroutine that sends on an errCh without buffer: the send waits for
\* the caller to receive
WorkerSendUnbuffered ==
    /\ run.worker = "running"
    /\ run.remote # "running" \/ run.chClosed
    /\ run.pc = "select"
    /\ run' = [run EXCEPT !.worker = "done", !.pc = "returned", !.chClosed = TRUE,
                          !.err = OutcomeError("execute",
                                               IF run.remote = "ended" THEN "ok"
                                               ELSE "failed")]
    /\ RunStep

\* the goroutine: sshSession.Run returns once the remote command has ended
\* or the channel is closed, and its error is sent on errCh
WorkerSend ==
    /\ run.worker = "running"
    /\ run.remote # "running" \/ run.chClosed
    /\ Len(run.errCh) < ErrChCap
    /\ run' = [run EXCEPT !.worker = "done",
                          !.errCh = Append(@, IF run.remote = "ended" THEN "ok"
                                              ELSE "failed")]
    /\ RunStep

\* the select takes the case err := <-errCh; the deferred Close runs
SelectResult ==
    /\ run.pc = "select"
    /\ run.errCh # <<>>
    /\ run' = [run EXCEPT !.pc = "returned", !.chClosed = TRUE,
                          !.errCh = Tail(@),
                          !.err = OutcomeError("execute", Head(run.errCh))]
    /\ RunStep

\* the select takes the case <-ctx.Done(); the deferred Close runs
SelectTimeout ==
    /\ run.pc = "select"
    /\ run.elapsed = run.deadline
    /\ run' = [run EXCEPT !.pc = "returned", !.chClosed = TRUE,
                          !.err = OutcomeError("execute", "timed out")]
    /\ RunStep

(***************************************************************************)
(* Calls made on the security manager directly.                            *)
(***************************************************************************)
\* a security manager set up with one of the host configurations
HostInit == \E cfg \in HostConfigs : Setup(cfg)

\* Manager.CheckHost(hostArg) is called
CallCheckHost(hostArg) ==
    /\ LET r == CheckHost(security, hostArg) IN
       /\ security' = r.mgr
       /\ call' = [fn |-> "CheckHost", arg |-> <<hostArg>>, err |-> r.err]
    /\ res' = NoResult
    /\ UNCHANGED <<now, sessions, heap, closed, mu, pc, loc, localFS, removedIds,
                   nreq, twin, permitted, exec, run, scp>>

\* a security manager set up with one of the command configurations
LimiterInit == \E cfg \in LimiterConfigs : Setup(cfg)

\* Manager.CheckCommand(id, command) is called; the caller notes the time of
\* a call that returns nil
CallCheckCommand(id, command) ==
    /\ LET r == CheckCommand(security, id, command, now) IN
       /\ security' = r.mgr
       /\ call' = [fn |-> "CheckCommand", arg |-> <<id, command>>, err |-> r.err]
       /\ permitted' = IF r.err = "" THEN (id :> now) @@ permitted ELSE permitted
    /\ res' = NoResult
    /\ UNCHANGED <<now, sessions, heap, closed, mu, pc, loc, localFS, removedIds,
                   nreq, twin, exec, run, scp>>

\* the maximal ages CleanupRateLimiter is called with
MaxAges == {0, 1, 2}

\* Manager.CleanupRateLimiter(maxAge) is called and removes something
CallCleanupRateLimiter(maxAge) ==
    /\ security' = CleanupRateLimiter(security, maxAge, now)
    /\ security' # security
    /\ call' = [fn |-> "CleanupRateLimiter", arg |-> <<maxAge>>, err |-> ""]
    /\ res' = NoResult
    /\ UNCHANGED <<now, sessions, heap, closed, mu, pc, loc, localFS, removedIds,
                   nreq, twin, permitted, exec, run, scp>>

(***************************************************************************)
(* Manager.CheckCommand statement by statement, called by several          *)
(* goroutines at once.                                                     *)
(***************************************************************************)
\* the locals of a call of CheckCommand
CheckLocals(sessionID, command) ==
    [op |-> "CheckCommand", id |-> sessionID, command |-> command,
     lastOp |-> 0, exists |-> FALSE, now |-> 0]

\* the return of CheckCommand with err: the deferred Unlock runs
CheckReturn(p, m, err) ==
    /\ security' = [m EXCEPT !.mu = NoOne]
    /\ call' = [fn |-> "CheckCommand", arg |-> <<loc[p].id, loc[p].command>>,
                err |-> err]
    /\ Return(p, [NoResult EXCEPT !.op = "CheckCommand", !.id = loc[p].id,
                                  !.err = err, !.n = loc[p].now])

\* a step inside CheckCommand that does not return
CheckGoto(p, next, l) ==
    /\ call' = NoCall
    /\ Goto(p, next, l)

\* what a step of CheckCommand leaves alone
CheckFrame ==
    UNCHANGED <<now, sessions, heap, closed, mu, localFS, removedIds, twin,
                permitted, exec, run, scp>>

\* a goroutine calls CheckCommand(sessionID, command)
CheckCommandCalled(p, sessionID, command) ==
    /\ Accept(p)
    /\ CheckGoto(p, "cc_lock", CheckLocals(sessionID, command))
    /\ security' = security
    /\ CheckFrame

\* an m.mu.Lock() that does not wait for the holder
CheckCommandLockNoWait(p) ==
    /\ pc[p] = "cc_lock"
    /\ security' = [security EXCEPT !.mu = p]
    /\ CheckGoto(p, IF security.config.RateLimit > 0 THEN "cc_read" ELSE "cc_rules",
                 loc[p])
    /\ CheckFrame
    /\ nreq' = nreq

\* m.mu.Lock() and the test of m.config.RateLimit
CheckCommandLock(p) ==
    /\ pc[p] = "cc_lock"
    /\ security.mu = NoOne
    /\ security' = [security EXCEPT !.mu = p]
    /\ CheckGoto(p, IF security.config.RateLimit > 0 THEN "cc_read" ELSE "cc_rules",
                 loc[p])
    /\ CheckFrame
    /\ nreq' = nreq

\* lastOp, exists := m.rateLimiter[sessionID]; now := time.Now()
CheckCommandRead(p) ==
    /\ pc[p] = "cc_read"
    /\ LET exists == loc[p].id \in DOMAIN security.rateLimiter IN
       CheckGoto(p, "cc_test",
                 [loc[p] EXCEPT !.exists = exists,
                                !.lastOp = IF exists THEN security.rateLimiter[loc[p].id]
                                           ELSE 0,
                                !.now = now])
    /\ security' = security
    /\ CheckFrame
    /\ nreq' = nreq

\* if exists && now.Sub(lastOp) < m.config.RateLimit: logOperation and the
\* return of the rate-limit error
CheckCommandTest(p) ==
    /\ pc[p] = "cc_test"
    /\ IF loc[p].exists /\ loc[p].now - loc[p].lastOp < security.config.RateLimit
       THEN CheckReturn(p, logOperation(security, "rate_limited", loc[p].id,
                                        loc[p].command),
                        "rate limit exceeded, please try again later")
       ELSE /\ CheckGoto(p, "cc_stamp", loc[p])
            /\ security' = security
    /\ CheckFrame
    /\ nreq' = nreq

\* m.rateLimiter[sessionID] = now
CheckCommandStamp(p) ==
    /\ pc[p] = "cc_stamp"
    /\ security' = [security EXCEPT !.rateLimiter = (loc[p].id :> loc[p].now) @@ @]
    /\ CheckGoto(p, "cc_rules", loc[p])
    /\ CheckFrame
    /\ nreq' = nreq

\* the denied and the allowed commands, logOperation and the return
CheckCommandRules(p) ==
    /\ pc[p] = "cc_rules"
    /\ LET denied == security.config.DeniedCommands
           allowed == security.config.AllowedCommands
           id == loc[p].id
           command == loc[p].command
       IN  IF \E i \in 1..Len(denied) : HasPrefix(command, denied[i])
           THEN CheckReturn(p, logOperation(security, "command_denied", id, command),
                            "command '" \o command \o "' is denied")
           ELSE IF Len(allowed) = 0
                   \/ \E i \in 1..Len(allowed) : HasPrefix(command, allowed[i])
           THEN CheckReturn(p, logOperation(security, "command_executed", id, command),
                            "")
           ELSE CheckReturn(p, logOperation(security, "command_not_allowed", id,
                                            command),
                            "command '" \o command \o "' is not allowed")
    /\ CheckFrame
    /\ nreq' = nreq

\* two security managers that differ in LoggingEnabled only
LogInit ==
    \E cfg \in LogConfigs :
        SetupWith(cfg, [mgr |-> NewSecurityManager([cfg EXCEPT !.LoggingEnabled = FALSE]),
                        err |-> ""])

\* CheckHost(hostArg) is called on both managers
TwinCheckHost(hostArg) ==
    /\ Len(security.log) < MaxLogLines
    /\ LET r == CheckHost(security, hostArg)
           r2 == CheckHost(twin.mgr, hostArg)
       IN /\ security' = r.mgr
          /\ call' = [fn |-> "CheckHost", arg |-> <<hostArg>>, err |-> r.err]
          /\ twin' = [mgr |-> r2.mgr, err |-> r2.err]
    /\ res' = NoResult
    /\ UNCHANGED <<now, sessions, heap, closed, mu, pc, loc, localFS, removedIds,
                   nreq, permitted, exec, run, scp>>

\* CheckCommand(id, command) is called on both managers at the same time
TwinCheckCommand(id, command) ==
    /\ Len(security.log) < MaxLogLines
    /\ LET r == CheckCommand(security, id, command, now)
           r2 == CheckCommand(twin.mgr, id, command, now)
       IN /\ security' = r.mgr
          /\ call' = [fn |-> "CheckCommand", arg |-> <<id, command>>, err |-> r.err]
          /\ twin' = [mgr |-> r2.mgr, err |-> r2.err]
    /\ res' = NoResult
    /\ UNCHANGED <<now, sessions, heap, closed, mu, pc, loc, localFS, removedIds,
                   nreq, permitted, exec, run, scp>>

\* matchHost(host, pattern) is called
CallMatchHost(host, pattern) ==
    /\ call' = [fn |-> "matchHost", arg |-> <<host, pattern>>,
                ret |-> matchHost(host, pattern)]
    /\ res' = NoResult
    /\ UNCHANGED <<now, sessions, heap, closed, mu, pc, loc, localFS, removedIds,
                   nreq, security, twin, permitted, exec, run, scp>>

(***************************************************************************)
(* The specification.                                                      *)
(***************************************************************************)
\* the requests of the session tools: connect, execute, disconnect and
\* list sessions, with the clock and the cleanup goroutine
Next ==
    \/ Tick
    \/ \E p \in Workers, host \in Hosts, user \in Users, auth \in AuthCases,
          dialOK \in BOOLEAN : Connect(p, host, user, auth, dialOK)
    \/ \E p \in Workers : AddSession(p)
    \/ \E p \in Workers, id \in RequestIds, command \in Commands :
          ExecuteGate(p, id, command)
    \/ \E p \in Workers : ExecuteCommand(p)
    \/ \E p \in Workers : NewSession(p)
    \/ \E p \in Workers, outcome \in {"ok", "failed", "timed out"} : Finish(p, outcome)
    \/ \E p \in Workers, id \in RequestIds : RemoveSession(p, id)
    \/ \E p \in Workers : RemoveClose(p)
    \/ \E p \in Workers : RemoveDelete(p)
    \/ \E p \in Workers : ListSessions(p)
    \/ \E p \in Workers : RenderSessions(p)
    \/ CleanupExpiredSessions

Spec == Init /\ [][Next]_vars

\* the requests that use a session (execute and the file tools), with
\* connect, disconnect, the clock and the cleanup goroutine
FileNext ==
    \/ Tick
    \/ \E p \in Workers, host \in Hosts, user \in Users, auth \in AuthCases,
          dialOK \in BOOLEAN : Connect(p, host, user, auth, dialOK)
    \/ \E p \in Workers : AddSession(p)
    \/ \E p \in Workers, id \in RequestIds, command \in Commands :
          ExecuteGate(p, id, command)
    \/ \E p \in Workers : ExecuteCommand(p)
    \/ \E p \in Workers, id \in RequestIds : ListDirectory(p, id)
    \/ \E p \in Workers, id \in RequestIds, path \in LocalPaths : Upload(p, id, path)
    \/ \E p \in Workers, id \in RequestIds, path \in LocalPaths : Download(p, id, path)
    \/ \E p \in Workers, id \in RequestIds, path \in LocalPaths : UploadDir(p, id, path)
    \/ \E p \in Workers, id \in RequestIds, path \in LocalPaths : DownloadDir(p, id, path)
    \/ \E p \in Workers : NewSession(p)
    \/ \E p \in Workers, outcome \in {"ok", "failed", "timed out"} : Finish(p, outcome)
    \/ \E p \in Workers, id \in RequestIds : RemoveSession(p, id)
    \/ \E p \in Workers : RemoveClose(p)
    \/ \E p \in Workers : RemoveDelete(p)
    \/ CleanupExpiredSessions

FileSpec == Init /\ [][FileNext]_vars

\* ssh_connect and ssh_execute on a server whose gate has command lists and
\* a rate limit, with the clock and the cleanup goroutine of the gate
GateNext ==
    \/ Tick
    \/ \E p \in Workers, host \in Hosts, user \in Users, auth \in AuthCases,
          dialOK \in BOOLEAN : Connect(p, host, user, auth, dialOK)
    \/ \E p \in Workers : AddSession(p)
    \/ \E p \in Workers, id \in RequestIds, command \in Commands :
          ExecuteGate(p, id, command)
    \/ \E p \in Workers : ExecuteCommand(p)
    \/ \E p \in Workers : NewSession(p)
    \/ \E p \in Workers, outcome \in {"ok", "failed", "timed out"} : Finish(p, outcome)
    \/ SweepRateLimiter

GateSpec == GateInit /\ [][GateNext]_vars

\* CheckHost called on security managers with different host lists
HostNext ==
    \E b \in BaseHosts, port \in PortSuffixes : CallCheckHost(b \o port)

HostSpec == HostInit /\ [][HostNext]_vars

\* CheckCommand called as time passes, and the limiter's cleanup
LimiterNext ==
    \/ Tick
    \/ \E id \in SessionIds, command \in Commands : CallCheckCommand(id, command)
    \/ SweepRateLimiter

LimiterSpec == LimiterInit /\ [][LimiterNext]_vars

\* CheckCommand called as time passes, and CleanupRateLimiter called with
\* any maximal age
PruneNext ==
    \/ Tick
    \/ \E id \in SessionIds, command \in Commands : CallCheckCommand(id, command)
    \/ \E maxAge \in MaxAges : CallCleanupRateLimiter(maxAge)

PruneSpec == LimiterInit /\ [][PruneNext]_vars

\* goroutines that call CheckCommand at the same time, as time passes
RaceNext ==
    \/ Tick
    \/ \E p \in Workers, id \in SessionIds, command \in {"ls", "rm"} :
          CheckCommandCalled(p, id, command)
    \/ \E p \in Workers : CheckCommandLock(p)
    \/ \E p \in Workers : CheckCommandRead(p)
    \/ \E p \in Workers : CheckCommandTest(p)
    \/ \E p \in Workers : CheckCommandStamp(p)
    \/ \E p \in Workers : CheckCommandRules(p)

RaceSpec == LimiterInit /\ [][RaceNext]_vars

\* the same calls made on a manager that logs and on one that does not
LogNext ==
    \/ Tick
    \/ \E host \in Hosts : TwinCheckHost(host)
    \/ \E id \in SessionIds, command \in Commands : TwinCheckCommand(id, command)

LogSpec == LogInit /\ [][LogNext]_vars

\* calls that open an exec channel, one after the other
ChannelNext ==
    \/ \E op \in ChannelOps : ExecBegin(op)
    \/ \E ok \in BOOLEAN : ExecNewSession(ok)
    \/ ExecRun
    \/ \E outcome \in Outcomes("execute") : ExecSelect(outcome)
    \/ \E outcome \in Outcomes("listDirectory") : ExecCombinedOutput(outcome)
    \/ \E ok \in BOOLEAN : ExecStdinPipe(ok)
    \/ \E ok \in BOOLEAN : ExecStdoutPipe(ok)
    \/ \E ok \in BOOLEAN : ExecStart(ok)
    \/ \E ferr \in {"", "EOF", "unexpected response"} : ExecCallback(ferr)
    \/ ExecCloseStdin
    \/ \E ok \in BOOLEAN : ExecWait(ok)
    \/ ExecDefer

ChannelSpec == Init /\ [][ChannelNext]_vars

\* transfers held with peers that send any stream
ScpNext ==
    \/ \E src \in SomeContents, sent \in UploadStreams, wait \in WaitOutcomes, stderr \in Stderrs :
           UploadExchange(src, sent, wait, stderr)
    \/ \E sent \in DownloadStreams, wait \in WaitOutcomes, stderr \in Stderrs : DownloadExchange(sent, wait, stderr)
    \/ \E entries \in FaultDirs, slash \in BOOLEAN, wait \in WaitOutcomes, stderr \in Stderrs :
           \E sent \in UploadDirStreams(entries) :
               UploadDirExchange(entries, slash, sent, wait, stderr)
    \/ \E sent \in DownloadDirStreams, wait \in WaitOutcomes, stderr \in Stderrs : DownloadDirExchange(sent, wait, stderr)

ScpSpec == Init /\ [][ScpNext]_vars

\* uploads followed by downloads, held with the conforming peer
RoundTripNext ==
    \/ \E src \in FileContents : FileRoundTrip(src)
    \/ \E entries \in LocalDirs, slash \in BOOLEAN, exists \in BOOLEAN, rank \in Ranks :
           DirRoundTrip(entries, slash, exists, rank)

RoundTripSpec == Init /\ [][RoundTripNext]_vars

\* ListDirectory called on outputs of "ls -la"
ListNext == \E lines \in Listings, gap \in Gaps : CallListDirectory(lines, gap)

ListSpec == Init /\ [][ListNext]_vars

\* ssh_execute requests raced against their deadline, one after the other
TimeoutNext ==
    \/ \E timeout \in RequestedTimeouts : HandleExecute(timeout)
    \/ SecondPasses
    \/ \E ok \in BOOLEAN : RemoteEnds(ok)
    \/ WorkerSend
    \/ SelectResult
    \/ SelectTimeout

TimeoutSpec == Init /\ [][TimeoutNext]_vars

\* the goroutine that runs the command is scheduled when it can run
TimeoutFairSpec == TimeoutSpec /\ WF_vars(WorkerSend)

\* matchHost called on hosts and patterns
MatchNext ==
    \E host \in MatchHosts, pattern \in MatchPatterns : CallMatchHost(host, pattern)

MatchSpec == Init /\ [][MatchNext]_vars

(***************************************************************************)
(* The two cleanup goroutines SetupServer starts, with requests arriving   *)
(* as time passes.                                                         *)
(***************************************************************************)
\* the clock of the sweeps runs on until what the requests of the first two
\* ticks left behind has passed its expiry
SweepTime == sessionExpiry + 2

\* the clock advances
PassTime ==
    /\ now < SweepTime
    /\ now' = now + 1
    /\ res' = NoResult
    /\ NoGate
    /\ UNCHANGED <<sessions, heap, closed, mu, pc, loc, localFS, removedIds, nreq>>

\* connect, execute and disconnect requests, the clock and both sweeps on a
\* server whose gate has a rate limit.  A ticker started twice is two
\* goroutines calling the same sweep, each call under the lock: any number
\* of sweeps may run between two steps of the clock.
SweepNext ==
    \/ PassTime
    \/ \E p \in Workers : Connect(p, "h", "u", "password", TRUE)
    \/ \E p \in Workers : AddSession(p)
    \/ \E p \in Workers, id \in RequestIds : ExecuteGate(p, id, "ls")
    \/ \E p \in Workers : ExecuteCommand(p)
    \/ \E p \in Workers : NewSession(p)
    \/ \E p \in Workers : Finish(p, "ok")
    \/ \E p \in Workers, id \in RequestIds : RemoveSession(p, id)
    \/ \E p \in Workers : RemoveClose(p)
    \/ \E p \in Workers : RemoveDelete(p)
    \/ CleanupExpiredSessions
    \/ SweepRateLimiter

SweepSpec == GateInit /\ [][SweepNext]_vars

\* time passes, each ticker fires again and again and its goroutine gets
\* the lock (sync.Mutex hands the lock to a waiter), and a goroutine inside
\* RemoveSession runs on to its Unlock
SweepFairSpec ==
    /\ SweepSpec
    /\ WF_vars(PassTime)
    /\ WF_vars(CleanupExpiredSessions)
    /\ WF_vars(SweepRateLimiter)
    /\ WF_vars(\E p \in Workers : RemoveClose(p))
    /\ WF_vars(\E p \in Workers : RemoveDelete(p))

(***************************************************************************)
(* The claims about the session manager.                                   *)
(***************************************************************************)
\* the connection handle of the session stored under id
ClientOf(id) == heap[sessions[id]].Client

\* the connection handles AddSession was called with
AddedHandles == {h \in DOMAIN closed : h \in DOMAIN heap}

\* the connection handles of the sessions in the table
TableHandles == {ClientOf(id) : id \in DOMAIN sessions}

\* C1: every session in the table has a connection handle the manager has
\* not closed, except the one entry that the holder of the lock has closed
\* and is about to delete; the lock is held only inside RemoveSession, and
\* every other manager operation waits for it, so none of them observes a
\* closed handle in the table.
C1_TableHandlesOpen ==
    /\ mu # NoOne => pc[mu] \in {"rm_close", "rm_delete"}
    /\ \A id \in DOMAIN sessions :
          closed[ClientOf(id)] > 0 =>
              /\ mu # NoOne
              /\ pc[mu] = "rm_delete"
              /\ loc[mu].id = id
    /\ \A p \in Workers :
          pc[p] \in {"rm_close", "rm_delete"} => mu = p

\* C1's case: RemoveSession has closed the handle of a session and not yet
\* deleted the entry, while another session is in the table
C1_Witness ==
    \E p \in Workers :
        /\ pc[p] = "rm_delete"
        /\ loc[p].id \in DOMAIN sessions
        /\ closed[ClientOf(loc[p].id)] = 1
        /\ \E id \in DOMAIN sessions : id # loc[p].id /\ closed[ClientOf(id)] = 0

\* C2: a connection handle handed to AddSession is never closed twice, and
\* once its session is not in the table it has been closed (exactly once).
C2_ClosedExactlyOnce ==
    \A h \in AddedHandles :
        /\ closed[h] <= 1
        /\ h \notin TableHandles => closed[h] = 1

\* C3: while an operation that resolved a session through GetSession is
\* opening or using its exec channel, the connection handle of that session
\* has not been closed.
C3_NoCloseWhileInUse ==
    \A p \in Workers :
        pc[p] \in {"open", "use"} => closed[heap[loc[p].h].Client] = 0

\* this step takes up a request, and goroutine p handles it
Handles(p) ==
    /\ nreq' = nreq + 1
    /\ pc[p] = "idle"
    /\ pc'[p] # "idle" \/ res'.p = p

\* the operation and the sessionId argument of the request p takes up
ReqOp(p) == IF pc'[p] # "idle" THEN loc'[p].op ELSE res'.op
ReqId(p) == IF pc'[p] # "idle" THEN loc'[p].id ELSE res'.id

\* the operations that reach the session manager with a sessionId
SessionOps ==
    {"execute", "disconnect", "upload", "download", "uploadDir", "downloadDir",
     "listDirectory"}

\* in this step the operation goroutine p handles reaches the session
\* manager: ssh_execute after its gate, the others when they are taken up
Reaches(p) ==
    \/ pc[p] = "exec" /\ pc'[p] # "exec"
    \/ Handles(p) /\ ReqOp(p) \in SessionOps \ {"execute"}

\* the operation that reaches the session manager, and its sessionId
ReachOp(p) == IF pc[p] = "exec" THEN loc[p].op ELSE ReqOp(p)
ReachId(p) == IF pc[p] = "exec" THEN loc[p].id ELSE ReqId(p)

\* C4: an operation (execute, disconnect, upload, download, uploadDir,
\* downloadDir, listDirectory) called with a session id that was removed and
\* not added since returns 'session not found' at once: it opens no exec
\* channel, closes nothing, and leaves the local file system and the table
\* as they are.
C4_RemovedIdNotFound ==
    [][\A p \in Workers :
          (Reaches(p) /\ ReachId(p) \in removedIds) =>
              /\ res'.p = p
              /\ res'.err = "session not found"
              /\ pc'[p] = "idle"
              /\ localFS' = localFS
              /\ sessions' = sessions
              /\ heap' = heap
              /\ closed' = closed]_vars

\* C4's case: a download to a local path that holds no file yet was called
\* with a removed session id and returned
C4_Witness ==
    /\ res.op = "download"
    /\ res.id \in removedIds
    /\ res.err = "session not found"
    /\ \E f \in LocalPaths : localFS[f] = "absent"

\* the sessions of the table by id
Table == [id \in DOMAIN sessions |-> heap[sessions[id]]]

\* C5: a run of CleanupExpiredSessions removes exactly the sessions whose
\* idle time now - lastActivity is strictly greater than the expiry, closes
\* the handle of each session it removes and no other, leaves every other
\* session and its fields unchanged, and returns the number it removed.
C5_SweepExact ==
    [][res'.op = "cleanup" =>
          LET gone == {id \in DOMAIN Table :
                          now - Table[id].LastActivity > sessionExpiry}
          IN /\ DOMAIN Table' = DOMAIN Table \ gone
             /\ \A id \in DOMAIN Table' : Table'[id] = Table[id]
             /\ \A h \in DOMAIN closed :
                   closed'[h] = IF \E id \in gone : Table[id].Client = h
                                THEN closed[h] + 1 ELSE closed[h]
             /\ res'.n = Cardinality(gone)]_vars

\* C5's case: a sweep removed one session and kept one whose idle time is
\* exactly the expiry
C5_Witness ==
    /\ res.op = "cleanup"
    /\ res.n = 1
    /\ \E id \in DOMAIN Table : now - Table[id].LastActivity = sessionExpiry
    /\ \E h \in AddedHandles : closed[h] = 1

\* C6: RemoveSession on an absent id returns 'session not found', closes
\* nothing and leaves the table unchanged; on a present id it closes the
\* handle of that session and no other, then deletes that entry and no
\* other, and returns success.
C6_RemoveSession ==
    [][\A p \in Workers :
          /\ (Handles(p) /\ ReqOp(p) = "disconnect") =>
                IF ReqId(p) \in DOMAIN Table
                THEN /\ pc'[p] = "rm_close"
                     /\ Table' = Table /\ closed' = closed
                ELSE /\ res'.p = p /\ res'.err = "session not found"
                     /\ pc'[p] = "idle"
                     /\ Table' = Table /\ closed' = closed
          /\ (pc[p] = "rm_close" /\ pc'[p] # "rm_close") =>
                /\ pc'[p] = "rm_delete"
                /\ closed' = [closed EXCEPT ![Table[loc[p].id].Client] = @ + 1]
                /\ Table' = Table
          /\ (pc[p] = "rm_delete" /\ pc'[p] # "rm_delete") =>
                /\ res'.p = p /\ res'.op = "disconnect" /\ res'.err = ""
                /\ pc'[p] = "idle"
                /\ DOMAIN Table' = DOMAIN Table \ {loc[p].id}
                /\ \A id \in DOMAIN Table' : Table'[id] = Table[id]
                /\ closed' = closed]_vars

\* C6's case: a second RemoveSession of an id returned 'session not found'
\* after the first closed the handle and deleted the entry (no session can
\* have expired yet)
C6_Witness ==
    /\ res.op = "disconnect"
    /\ res.err = "session not found"
    /\ res.id \in removedIds
    /\ \E h \in AddedHandles : heap[h].ID = res.id /\ closed[h] = 1
    /\ now <= sessionExpiry

\* C7: GetSession on a present id returns the session stored under that id
\* and sets the lastActivity of that session to the current time; its id,
\* host, username, createdAt and handle, every other session, the table and
\* the handles stay as they are.  On an absent id it returns an error and
\* changes nothing.
C7_GetSessionFrame ==
    [][\A p \in Workers :
          (Reaches(p) /\ ReachOp(p) = "execute") =>
              IF ReachId(p) \in DOMAIN sessions
              THEN LET s == sessions[ReachId(p)] IN
                   /\ pc'[p] = "open"
                   /\ loc'[p].h = s
                   /\ heap'[s] = [ID |-> heap[s].ID, Client |-> heap[s].Client,
                                  CreatedAt |-> heap[s].CreatedAt,
                                  LastActivity |-> now,
                                  Host |-> heap[s].Host,
                                  Username |-> heap[s].Username]
                   /\ DOMAIN heap' = DOMAIN heap
                   /\ \A h \in DOMAIN heap \ {s} : heap'[h] = heap[h]
                   /\ sessions' = sessions
                   /\ closed' = closed
              ELSE /\ res'.p = p /\ res'.err # ""
                   /\ pc'[p] = "idle"
                   /\ heap' = heap
                   /\ sessions' = sessions
                   /\ closed' = closed]_vars

\* C7's case: a lookup has refreshed a session created earlier, while
\* another session with an older lastActivity is in the table
C7_Witness ==
    \E p \in Workers :
        /\ pc[p] = "open"
        /\ loc[p].op = "execute"
        /\ loc[p].id \in DOMAIN sessions
        /\ heap[loc[p].h].LastActivity = now
        /\ heap[loc[p].h].CreatedAt < now
        /\ \E id \in DOMAIN sessions :
              id # loc[p].id /\ Table[id].LastActivity < now

\* C8: the listing that is rendered reports the sessions and the field
\* values the table had when Manager.ListSessions returned.
C8_ListingIsSnapshot ==
    [][\A p \in Workers :
          (pc[p] = "render" /\ pc'[p] = "idle") =>
              res'.list = {RenderSession(loc[p].snap[h]) : h \in loc[p].ptrs}]_vars

\* a step that adds one session under the id a successful connect returns
\* and leaves every session of the table as it is
AddsOne ==
    /\ res'.op = "connect" /\ res'.err = ""
    /\ res'.val \notin DOMAIN Table
    /\ DOMAIN Table' = DOMAIN Table \cup {res'.val}
    /\ Table'[res'.val].ID = res'.val
    /\ \A id \in DOMAIN Table : Table'[id] = Table[id]

\* a step of a lookup that sets the lastActivity of one session
TouchesOne ==
    /\ \E p \in Workers : Reaches(p) /\ ReachOp(p) # "disconnect"
    /\ \E id \in DOMAIN Table : Table' = [Table EXCEPT ![id].LastActivity = now]

\* a step of disconnect or of the sweep that deletes sessions
DeletesSome ==
    /\ \/ res'.op = "disconnect" /\ res'.err = ""
       \/ res'.op = "cleanup"
    /\ DOMAIN Table' \subseteq DOMAIN Table
    /\ \A id \in DOMAIN Table' : Table'[id] = Table[id]

\* C9: the table changes only by a successful connect adding a session, a
\* lookup setting a lastActivity, or disconnect or the sweep deleting
\* sessions; a connect that fails leaves it unchanged, and a successful
\* connect adds exactly one session, under the id it returns.
C9_TableChanges ==
    [][/\ Table' # Table => (AddsOne \/ TouchesOne \/ DeletesSome)
       /\ (res'.op = "connect" /\ res'.err # "") => Table' = Table
       /\ (res'.op = "connect" /\ res'.err = "") => AddsOne]_vars

\* C10: no two successful connects receive the same session id: the id a
\* connect is about to add is neither in the table nor the id of another
\* connect that is about to add.
C10_SessionIdsUnique ==
    \A p \in Workers :
        pc[p] = "add" =>
            /\ loc[p].id \notin DOMAIN sessions
            /\ \A q \in Workers \ {p} : pc[q] = "add" => loc[q].id # loc[p].id

(***************************************************************************)
(* The claims about the security gate.                                     *)
(***************************************************************************)
\* C11: a handler that has reached the session manager, or is opening or
\* using an exec channel (execute, upload, download, uploadDir,
\* downloadDir, listDirectory), has passed a check of the security gate for
\* its request.
C11_GateBeforeEngine ==
    \A p \in Workers :
        (pc[p] \in {"exec", "open", "use"} /\ loc[p].op \in SessionOps) =>
            loc[p].gated

\* the errors CheckCommand returns
RateLimitError == "rate limit exceeded, please try again later"

\* C12: the handlers of ssh_connect and ssh_execute call the gate first and
\* return what it decides.  When CheckHost returns an error the handler
\* returns that error: no connection is dialled and the table is as it was.
\* When CheckCommand returns an error (rate limit, denied command, command
\* not allowed) the handler returns that error: the session is not looked
\* up, no lastActivity is refreshed and no exec channel is opened.
C12_GateFirst ==
    [][\A p \in Workers :
          Handles(p) =>
              /\ ReqOp(p) = "connect" =>
                    /\ call'.fn = "CheckHost"
                    /\ call'.err = CheckHost(security, call'.arg[1]).err
              /\ ReqOp(p) = "execute" =>
                    /\ call'.fn = "CheckCommand"
                    /\ call'.arg[1] = ReqId(p)
                    /\ call'.err =
                          CheckCommand(security, ReqId(p), call'.arg[2], now).err
              /\ (ReqOp(p) \in {"connect", "execute"} /\ call'.err # "") =>
                    /\ res'.p = p /\ res'.err = call'.err
                    /\ pc'[p] = "idle"
                    /\ closed' = closed
                    /\ sessions' = sessions
                    /\ heap' = heap]_vars

\* C12's case: an ssh_execute for a live session was rate-limited at a time
\* later than the lastActivity of the session, which stays as it was
C12_Witness ==
    /\ call.fn = "CheckCommand"
    /\ call.err = RateLimitError
    /\ res.op = "execute" /\ res.err = RateLimitError
    /\ res.id \in DOMAIN sessions
    /\ Table[res.id].LastActivity < now

\* host matches one of the patterns
MatchesSome(host, patterns) ==
    \E i \in 1..Len(patterns) : matchHost(host, patterns[i])

\* C13: CheckHost called with a host, alone or followed by ':port', returns
\* an error iff the host matches a denied pattern, or the allow-list is not
\* empty and the host matches none of its patterns.  So a host that matches
\* a denied pattern is denied whatever the allow-list holds, and with an
\* empty allow-list a host that matches no denied pattern is allowed.
C13_CheckHost ==
    \A b \in BaseHosts, port \in PortSuffixes :
        (call.fn = "CheckHost" /\ call.arg[1] = b \o port) =>
            (call.err # "" <=>
                \/ MatchesSome(b, security.config.DeniedHosts)
                \/ /\ Len(security.config.AllowedHosts) > 0
                   /\ ~MatchesSome(b, security.config.AllowedHosts))

\* C13's case: a host given with its port matches a denied pattern and an
\* allowed pattern, and is denied
C13_Witness ==
    \E b \in BaseHosts :
        /\ call.fn = "CheckHost" /\ call.arg[1] = b \o ":22"
        /\ MatchesSome(b, security.config.DeniedHosts)
        /\ MatchesSome(b, security.config.AllowedHosts)
        /\ call.err # ""

\* s ends with t
EndsWith(s, t) ==
    \E k \in 0..Len(s) : SubSeq(s, k + 1, Len(s)) = t

\* C14: for a pattern "*.D", matchHost(host, pattern) is true iff the host
\* ends with ".D" or is the pattern itself: "a.D" matches, "D" and "notD" do
\* not.
C14_Wildcard ==
    (call.fn = "matchHost" /\ HasPrefix(call.arg[2], "*.")) =>
        LET host == call.arg[1]
            D == SubSeq(call.arg[2], 3, Len(call.arg[2]))
        IN /\ call.ret <=> (EndsWith(host, "." \o D) \/ host = call.arg[2])
           /\ host = "a." \o D => call.ret
           /\ host = D => ~call.ret
           /\ host = "not" \o D => ~call.ret

\* C14's case: a host that ends with D, without the dot before it, is not
\* matched by "*.D"
C14_Witness ==
    /\ call.fn = "matchHost"
    /\ call.arg = <<"notexample.com", "*.example.com">>
    /\ ~call.ret

\* bit j (1 the highest, 32 the lowest) of the address ip
AddrBit(ip, j) ==
    LET k == (j - 1) \div 8 + 1
        b == 8 - ((j - 1) % 8)
    IN (ip[k] \div Pow2(b - 1)) % 2

\* the pattern is a network, the host an address, and the address agrees
\* with the network on the bits of the prefix
InsideNetwork(host, pattern) ==
    /\ ParseCIDR(pattern)[1]
    /\ ParseIP(host) # <<>>
    /\ \A j \in 1..ParseCIDR(pattern)[3] :
           AddrBit(ParseIP(host), j) = AddrBit(ParseCIDR(pattern)[2], j)

\* C15: for a pattern containing '/', matchHost(host, pattern) is true iff
\* the pattern parses as a network, the host parses as an address and the
\* address lies inside the network; a pattern or a host that does not parse
\* yields false.
C15_CIDR ==
    (call.fn = "matchHost" /\ ContainsChar(call.arg[2], "/")) =>
        (call.ret <=> InsideNetwork(call.arg[1], call.arg[2]))

\* C15 amended: for a pattern containing '/' that is no "*." wildcard, and a
\* host that is not the pattern itself, matchHost(host, pattern) is true iff
\* the pattern parses as a network, the host parses as an address and the
\* address lies inside the network.
C15_CIDRUnlessExact ==
    (/\ call.fn = "matchHost"
     /\ ContainsChar(call.arg[2], "/")
     /\ ~HasPrefix(call.arg[2], "*.")
     /\ call.arg[1] # call.arg[2]) =>
        (call.ret <=> InsideNetwork(call.arg[1], call.arg[2]))

\* C15's case: a host that is no address is not matched by a network
C15_Witness ==
    /\ call.fn = "matchHost"
    /\ call.arg = <<"not-an-ip", "192.168.1.0/24">>
    /\ ~call.ret

\* the step is a call of CheckCommand
CheckCommandCall == call'.fn = "CheckCommand"

\* the limiter's entry for the session id
HasStamp(m, id) == id \in DOMAIN m.rateLimiter

\* the limiter's entry for the session id is the same in m and n
SameStamp(m, n, id) ==
    /\ HasStamp(m, id) <=> HasStamp(n, id)
    /\ HasStamp(m, id) => m.rateLimiter[id] = n.rateLimiter[id]

\* C17: a CheckCommand call that returns an error (rate limited, command
\* denied or command not allowed) leaves the session's limiter timestamp as
\* it was; only a call that returns nil creates or advances it.
C17_DenialKeepsStamp ==
    [][CheckCommandCall =>
          (call'.err # "" => SameStamp(security, security', call'.arg[1]))]_vars

\* the manager m with the limiter entries of every other session id removed
OnlySession(m, id) ==
    [m EXCEPT !.rateLimiter = [i \in DOMAIN @ \cap {id} |-> @[i]]]

\* C16: with a rate limit R > 0, a CheckCommand call for the session s at
\* time t returns the rate-limit error iff the limiter holds a timestamp t0
\* for s with t - t0 < R; a call for a session the limiter has no entry for,
\* and a call at least R after the last call for s that returned nil, are
\* not rate limited; the entries of other session ids do not change the
\* result.
C16_RateLimit ==
    [][(CheckCommandCall /\ security.config.RateLimit > 0) =>
          LET s == call'.arg[1]
              R == security.config.RateLimit
              limited == call'.err = RateLimitError
          IN /\ limited <=> (HasStamp(security, s) /\ now - security.rateLimiter[s] < R)
             /\ ~HasStamp(security, s) => ~limited
             /\ (s \in DOMAIN permitted /\ now - permitted[s] >= R) => ~limited
             /\ call'.err = CheckCommand(OnlySession(security, s), s, call'.arg[2], now).err
      ]_vars

\* p is a prefix of the command
IsPrefixOf(p, command) ==
    Len(p) <= Len(command) /\ \A k \in 1..Len(p) : SubSeq(command, k, k) = SubSeq(p, k, k)

\* one of the prefixes is a prefix of the command
SomePrefix(prefixes, command) ==
    \E i \in 1..Len(prefixes) : IsPrefixOf(prefixes[i], command)

\* C18: a CheckCommand call inside the rate-limit interval returns the
\* rate-limit error whatever the command; a call that is not rate limited
\* returns nil iff no denied prefix is a prefix of the command and the
\* allow-list is empty or holds a prefix of the command, so a command with
\* a denied and an allowed prefix is denied.
C18_CommandRules ==
    [][CheckCommandCall =>
          LET command == call'.arg[2]
              cfg == security.config
          IN IF RateLimited(security, call'.arg[1], now)
             THEN call'.err = RateLimitError
             ELSE /\ call'.err = "" <=>
                        /\ ~SomePrefix(cfg.DeniedCommands, command)
                        /\ \/ Len(cfg.AllowedCommands) = 0
                           \/ SomePrefix(cfg.AllowedCommands, command)
                  /\ call'.err # RateLimitError
      ]_vars

\* C18's case: a command with a denied and an allowed prefix is denied by a
\* call that the limiter lets through
C18_Witness ==
    /\ call.fn = "CheckCommand"
    /\ SomePrefix(security.config.DeniedCommands, call.arg[2])
    /\ SomePrefix(security.config.AllowedCommands, call.arg[2])
    /\ call.err = "command '" \o call.arg[2] \o "' is denied"
    /\ security.config.RateLimit > 0

\* C19: of two security managers with the same host lists, command lists and
\* rate limit, one with logging enabled and one with logging disabled, that
\* receive the same CheckHost and CheckCommand calls at the same clock
\* values, every call returns the same error on both and leaves both with
\* the same rate-limiter timestamps.
C19_LoggingChangesNothing ==
    twin # NoTwin =>
        /\ security.config.LoggingEnabled /\ ~twin.mgr.config.LoggingEnabled
        /\ call.fn # "" => call.err = twin.err
        /\ security.rateLimiter = twin.mgr.rateLimiter

\* C19's case: a rate-limited call, printed by one manager and not by the
\* other, after a call that set the timestamp
C19_Witness ==
    /\ twin # NoTwin
    /\ call.fn = "CheckCommand"
    /\ call.err = RateLimitError
    /\ twin.err = RateLimitError
    /\ Len(security.log) > 1
    /\ Len(twin.mgr.log) = 0

\* C20: a call that opens an exec channel opens one, starts the remote
\* command at most once, and has called Close on the channel once when it
\* returns, whether it succeeded, the remote command failed, the SCP
\* exchange failed or the command timed out; in scpSession the stdin pipe,
\* once obtained, has been closed exactly once when the call returns.
C20_OneChannelClosed ==
    /\ exec.opened <= 1 /\ exec.starts <= exec.opened
    /\ exec.closes <= exec.opened
    /\ exec.pipes <= exec.opened /\ exec.pipeCloses <= exec.pipes
    /\ exec.pc = "returned" =>
           /\ exec.closes = exec.opened
           /\ exec.pipeCloses = exec.pipes
           /\ exec.err \notin {"failed to create SSH session"} => exec.opened = 1
           /\ exec.op \in ScpOps /\ exec.err \in {"", "SCP protocol error", "SCP command failed"}
                  => exec.pipes = 1 /\ exec.starts = 1

\* C20's case: scpSession has returned after the SCP exchange and the
\* remote command went well, with the channel and the stdin pipe closed
C20_Witness ==
    /\ exec.pc = "returned"
    /\ exec.op \in ScpOps
    /\ exec.err = ""
    /\ exec.closes = 1
    /\ exec.pipeCloses = 1

\* C21: when the deadline expires before the remote command has completed,
\* ExecuteCommand can return the timeout error at once, whatever the remote
\* command does; the goroutine that runs the command always finds room in
\* errCh for its result, and after the caller has returned it terminates.
C21_TimeoutAbandons ==
    /\ [](run.pc = "select" /\ run.elapsed = run.deadline => ENABLED SelectTimeout)
    /\ [](run.worker = "running" => Len(run.errCh) < ErrChCap)
    /\ (run.pc = "returned") ~> (run.worker = "done")

\* C21's case: the call returned the timeout error while the remote command
\* was still running, and the goroutine has terminated since
C21_Witness ==
    /\ run.pc = "returned"
    /\ run.err = "command execution timed out"
    /\ run.remote = "running"
    /\ run.worker = "done"

\* C22: the deadline of an ssh_execute request is the request's timeout when
\* that is positive, and 30 seconds when it is absent or not positive.
C22_Deadline ==
    run.pc # "idle" =>
        run.deadline = IF run.requested > 0 THEN run.requested ELSE 30

\* the four transfers
Transfers == {"Upload", "Download", "UploadDir", "DownloadDir"}

\* the reads of a callback at which an acknowledgment or a status byte is
\* awaited, and those of them that got a non-zero byte
StatusReads(ev) == {i \in 1..Len(ev) : ev[i].op \in {"ReadByte", "Read"}}
NonZeroReads(ev) ==
    {i \in StatusReads(ev) : ev[i].bytes # <<>> /\ ev[i].bytes[1] # NUL}

\* the message line the peer sent after the byte read at i: the bytes up to
\* the end of the line, or what the peer sent when it sent no end of line
MessageAfter(ev, i) ==
    LET s == IF i < Len(ev) THEN ev[i + 1].bytes ELSE <<>>
        body == IF s # <<>> /\ s[Len(s)] = LF THEN SubSeq(s, 1, Len(s) - 1) ELSE s
    IN  Text(body)

\* t occurs in s
Contains(s, t) == \E i \in 0..(Len(s) - Len(t)) : SubSeq(s, i + 1, i + Len(t)) = t

\* C23: in each of the four transfers, a non-zero byte read where an
\* acknowledgment or a trailing status byte is awaited makes the operation
\* return an error whose text contains the message line the peer sent
\* after the byte, and the callback writes nothing after that byte.
C23_NonZeroByteFails ==
    scp.op \in Transfers =>
        \A i \in NonZeroReads(scp.ev) :
            /\ ~scp.err.nil
            /\ Contains(scp.err.text, MessageAfter(scp.ev, i))
            /\ \A j \in (i + 1)..Len(scp.ev) : scp.ev[j].op # "Write"

\* C23's case: a directory upload whose peer answers the header of the
\* second file with a non-zero byte and the line "EOF", after the first
\* file has been sent
C23_Witness ==
    /\ scp.op = "UploadDir"
    /\ \E i \in NonZeroReads(scp.ev) :
           /\ MessageAfter(scp.ev, i) = "EOF"
           /\ Cardinality({j \in StatusReads(scp.ev) : j < i}) >= 4
    /\ scp.err.text = "SCP protocol error: failed to send file header: EOF"

\* the stream ended while the bytes of a file were copied, or where the
\* status byte after them was awaited
EndedShort(ev) ==
    \E i \in 1..Len(ev) :
        /\ ev[i].op \in {"CopyN", "ReadByte", "Read"}
        /\ ev[i].bytes = <<>>

\* C24: a download of a file or of a directory whose stream ends before the
\* bytes a C header declares have been received, or before the status byte
\* that follows them, returns an error.
C24_ShortTransferFatal ==
    scp.op \in {"Download", "DownloadDir"} /\ EndedShort(scp.ev) => ~scp.err.nil

\* C25: a file of N bytes that is uploaded to a conforming peer and then
\* downloaded from it arrives with the same N bytes, for N = 0, N = 1 and
\* every N up to one more than a copy buffer holds: both operations return
\* no error, and neither callback reads a byte before the peer has sent it.
C25_FileRoundTrip ==
    scp.op = "FileRoundTrip" =>
        /\ scp.upload.nil /\ scp.uploadInOrder
        /\ scp.remote.files = (<<"f">> :> scp.src)
        /\ scp.download.nil /\ scp.downloadInOrder
        /\ scp.local = scp.src

\* C25's case: a file longer than a copy buffer, with a zero byte and an
\* end of line in it, has come back
C25_Witness ==
    /\ scp.op = "FileRoundTrip"
    /\ Len(scp.src) > BufSize
    /\ scp.src[1] = NUL /\ scp.src[2] = LF
    /\ scp.download.nil
    /\ scp.local = scp.src

\* C26: a directory with nested directories and files that is uploaded to
\* a conforming peer and then downloaded into a fresh directory arrives
\* with the same relative file paths and the same bytes in each file, in
\* whatever order the local directory and the peer enumerate the entries.
C26_DirRoundTrip ==
    scp.op = "DirRoundTrip" =>
        /\ scp.upload.nil /\ scp.uploadInOrder
        /\ scp.download.nil /\ scp.downloadInOrder
        /\ scp.local.files = Flatten(scp.src, <<>>, NoFiles).files

\* C26's case: a directory with a file and two nested directories, which
\* the local enumeration starts with the directory and the peer with the
\* file, has come back
C26_Witness ==
    /\ scp.op = "DirRoundTrip"
    /\ Len(scp.src) = 2 /\ scp.src[1].dir
    /\ scp.rank[1] = "a"
    /\ scp.download.nil
    /\ <<"d", "d", "a">> \in DOMAIN scp.local.files
    /\ Len(scp.local.files[<<"a">>]) > BufSize
    /\ scp.local.files = Flatten(scp.src, <<>>, NoFiles).files

\* a printed line starts with "total ", and the entry a line with at least
\* nine fields stands for
StartsWithTotal(fields, gap) ==
    fields # <<>> /\ fields[1] = "total" /\ Len(fields) > 1 /\ SubSeq(gap, 1, 1) = " "
EntryOf(fields) ==
    [name |-> Join([i \in 1..(Len(fields) - 8) |-> fields[i + 8]], " "),
     permissions |-> fields[1],
     size |-> fields[5],
     date |-> fields[6] \o " " \o fields[7] \o " " \o fields[8],
     isDirectory |-> IF SubSeq(fields[1], 1, 1) = "d" THEN "true" ELSE "false"]
RECURSIVE Listed(_, _)
Listed(lines, gap) ==
    IF lines = <<>> THEN <<>>
    ELSE (IF Len(Head(lines)) >= 9 /\ ~StartsWithTotal(Head(lines), gap)
          THEN <<EntryOf(Head(lines))>> ELSE <<>>)
         \o Listed(Tail(lines), gap)

\* C27: ListDirectory returns, in the order of the output, one entry for
\* every line that is not empty, does not start with "total " and has at
\* least nine fields, and nothing for the other lines; an entry has field 0
\* as permissions, field 4 as size, fields 5 to 7 as date, the remaining
\* fields as name, and isDirectory is true iff the permissions start with d.
C27_Listing ==
    call.fn = "ListDirectory" => call.ret = Listed(call.arg.lines, call.arg.gap)

\* C27's case: the total line, a line of eight fields and a line whose name
\* has a space in it, separated by two spaces, give the one entry
C27_Witness ==
    /\ call.fn = "ListDirectory"
    /\ call.arg.gap = "  "
    /\ Len(call.arg.lines) = 3
    /\ call.arg.lines[1] = <<"total", "16">>
    /\ Len(call.arg.lines[2]) = 8
    /\ Len(call.ret) = 1
    /\ call.ret[1].name = "my file.txt"
    /\ call.ret[1].isDirectory = "false"
    /\ call.ret[1].date = "Jan 1 12:34"

\* C28: the session manager closes no connection handle between acquiring
\* and releasing its lock: whenever a handle is closed, no one holds mu.
C28_NoCloseUnderLock ==
    [][(\E h \in DOMAIN closed : closed'[h] > closed[h]) => mu = NoOne]_vars

\* the events of a callback before its first write
BeforeFirstWrite(ev) ==
    IF \E i \in 1..Len(ev) : ev[i].op = "Write"
    THEN SubSeq(ev, 1, Min({i \in 1..Len(ev) : ev[i].op = "Write"}) - 1)
    ELSE ev

\* the acknowledgments a callback has consumed and found to be 0
ZeroReads(ev) == {i \in StatusReads(ev) : ev[i].bytes = <<NUL>>}

\* C29: the callback of a single-file upload writes the C header only
\* after it has consumed the first acknowledgment of the peer, and it
\* returns without error only after it has consumed three acknowledgments
\* and found each to be 0.
C29_UploadOrder ==
    scp.op = "Upload" =>
        /\ scp.out # <<>> => ZeroReads(BeforeFirstWrite(scp.ev)) # {}
        /\ scp.cb.nil => Cardinality(ZeroReads(scp.ev)) = 3

\* the first line a peer sent, the size it declares, and whether it is a C
\* header with a size that can be parsed
FirstLine(sent) == IF LineEnd(sent) = 0 THEN sent ELSE SubSeq(sent, 1, LineEnd(sent))
Declared(sent) == ParseInt(Split(FirstLine(sent))[2])
IsCHeader(sent) ==
    /\ LineEnd(sent) # 0
    /\ FirstLine(sent)[1] = "C"
    /\ Len(Split(FirstLine(sent))) >= 3
    /\ Declared(sent).err.nil

\* C30: the callback of a single-file download writes one 0 byte, reads one
\* line, and when the line is a C header with a size writes a 0 byte,
\* copies the declared number of bytes, reads one status byte and writes a
\* last 0 byte only if the status byte is 0.  When it returns without error
\* it has written exactly three 0 bytes and the destination holds exactly
\* the declared number of bytes; when the line does not start with C or its
\* size cannot be parsed it returns an error and has written nothing but
\* the first 0 byte.
C30_DownloadOrder ==
    scp.op = "Download" =>
        LET ev == scp.ev
            n == Len(ev)
        IN  /\ ev[1] = [op |-> "Write", bytes |-> <<NUL>>]
            /\ ev[2].op = "ReadString"
            /\ \A i \in 3..n : ev[i].op = "Write" => ev[i].bytes = <<NUL>>
            /\ scp.cb.nil =>
                   /\ scp.out = <<NUL, NUL, NUL>>
                   /\ ev[3].op = "Write"
                   /\ \A i \in 4..(n - 2) : ev[i].op = "CopyN"
                   /\ ev[n - 1] = [op |-> "Read", bytes |-> <<NUL>>]
                   /\ ev[n].op = "Write"
                   /\ Len(scp.local) = Declared(scp.sent).n
            /\ ~IsCHeader(scp.sent) => ~scp.cb.nil /\ scp.out = <<NUL>>

\* the writes of a directory upload that are a D header, a C header, the 0
\* byte after the bytes of a file or an E marker (the bytes of the files
\* uploaded hold none of these), and the acknowledgments consumed between
\* two events
ItemWrites(ev) ==
    {i \in 1..Len(ev) :
        /\ ev[i].op = "Write"
        /\ \/ ev[i].bytes = <<NUL>>
           \/ /\ ev[i].bytes # <<>>
              /\ ev[i].bytes[1] \in {"C", "D", "E"}
              /\ ev[i].bytes[Len(ev[i].bytes)] = LF}
AcksBetween(ev, i, j) == {k \in (i + 1)..(j - 1) : ev[k].op = "ReadByte"}

\* the number of bytes a callback has read
RECURSIVE Consumed(_)
Consumed(ev) ==
    IF ev = <<>> THEN 0
    ELSE (IF Head(ev).op = "Write" THEN 0 ELSE Len(Head(ev).bytes)) + Consumed(Tail(ev))

\* C31: in a directory upload exactly one acknowledgment is consumed
\* between any header or terminator the callback sends (D header, C header,
\* 0 byte after the bytes of a file, E marker) and the next one, and when
\* the callback returns without error against a conforming sink it has
\* consumed every byte the sink has sent.
C31_AckPerItem ==
    scp.op = "UploadDir" =>
        /\ \A i, j \in ItemWrites(scp.ev) :
               (i < j /\ \A k \in ItemWrites(scp.ev) : ~(i < k /\ k < j))
                   => Cardinality(AcksBetween(scp.ev, i, j)) = 1
        /\ (scp.cb.nil /\ scp.sent = Sink(scp.out, SinkStart(TRUE), TRUE).replies)
               => Consumed(scp.ev) = Len(scp.sent)

\* the blocks of the entries of a directory: a D header, the blocks of its
\* entries and an E marker for a directory or a link to one, a C header,
\* the bytes and a 0 byte for a file
RECURSIVE Blocks(_)
Blocks(entries) ==
    IF entries = <<>> THEN <<>>
    ELSE LET e == Head(entries)
         IN  (IF e.dir \/ (e.link /\ e.toDir)
              THEN Bytes("D0755 0 ") \o Bytes(e.name) \o <<LF>>
                   \o Blocks(e.entries) \o <<"E", LF>>
              ELSE Bytes("C0644 ") \o FormatInt(Len(e.data)) \o <<" ">> \o Bytes(e.name)
                   \o <<LF>> \o e.data \o <<NUL>>)
             \o Blocks(Tail(entries))

\* what an upload of the directory named base sends
Framing(base, slash, entries) ==
    IF slash THEN Blocks(entries)
    ELSE Bytes("D0755 0 ") \o Bytes(base) \o <<LF>> \o Blocks(entries) \o <<"E", LF>>

IsPrefix(s, t) == Len(s) <= Len(t) /\ SubSeq(t, 1, Len(s)) = s

LevelsStart ==
    [fs |-> NoFiles, declared |-> <<>>, acks |-> 1, aborted |-> FALSE,
     level |-> 0, partial |-> FALSE]
RECURSIVE Levels(_, _, _)
Levels(bs, open, st) ==
    LET n == LineEnd(bs)
        line == SubSeq(bs, 1, n - 1)
        rest == SubSeq(bs, n + 1, Len(bs))
        parts == SplitN3(line)
        cwd == IF open = <<>> THEN <<>> ELSE open[Len(open)]
        size == ParseInt(parts[2])
        path == Append(cwd, Text(parts[3]))
        \* the D header read by the root call stands for the destination
        dir == IF open = <<>> THEN <<>> ELSE path
        stop == [st EXCEPT !.aborted = TRUE]
    IN  IF n = 0 THEN [st EXCEPT !.level = Len(open), !.partial = (bs # <<>>)]
        ELSE IF n = 1 THEN stop
        ELSE IF line[1] = "E"
        THEN IF open = <<>> THEN [st EXCEPT !.acks = @ + 1]
             ELSE Levels(rest, SubSeq(open, 1, Len(open) - 1), [st EXCEPT !.acks = @ + 1])
        ELSE IF line[1] = "T" THEN Levels(rest, open, [st EXCEPT !.acks = @ + 1])
        ELSE IF line[1] \in {SOH, STX} THEN Levels(rest, open, st)
        ELSE IF line[1] = "C"
        THEN IF Len(parts) # 3 \/ ~size.err.nil THEN stop
             ELSE LET take == IF size.n > 0 THEN size.n ELSE 0
                  IN  IF Len(rest) <= take \/ rest[take + 1] # NUL THEN stop
                      ELSE Levels(SubSeq(rest, take + 2, Len(rest)), open,
                                  [st EXCEPT !.fs = WriteFile(@, path, SubSeq(rest, 1, take)),
                                             !.declared = (path :> size.n) @@ @,
                                             !.acks = @ + 2])
        ELSE IF line[1] = "D"
        THEN IF Len(parts) # 3 THEN stop
             ELSE Levels(rest, Append(open, dir),
                         [st EXCEPT !.fs.dirs = @ \cup (IF dir = <<>> THEN {} ELSE {dir}),
                                    !.acks = @ + 1])
        ELSE stop

\* C33: when the callback of a directory download returns without error,
\* the stream had only records; the D header read by the root call stands
\* for the destination itself, every D header inside a level has made the
\* directory of its name in the directory of that level and every E has
\* ended one level; every file is in the directory of the level at which
\* its C header was read and holds exactly the declared number of bytes;
\* and one acknowledgment was written for each T line, D header and E, two
\* for each file, none for a line that starts with byte 1 or 2.
C33_Levels ==
    (scp.op = "DownloadDir" /\ scp.cb.nil) =>
        LET asked == Levels(scp.sent, <<>>, LevelsStart)
        IN  /\ ~asked.aborted
            /\ scp.local.dirs = asked.fs.dirs
            /\ scp.local.files = asked.fs.files
            /\ \A f \in DOMAIN scp.local.files : Len(scp.local.files[f]) = asked.declared[f]
            /\ scp.out = NULs(asked.acks)

\* C34: a directory download whose stream ends where a record is awaited
\* while a D block is still open, or inside a header line, does not return
\* without error.
C34_CleanEndOnlyAtTop ==
    scp.op = "DownloadDir" =>
        LET asked == Levels(scp.sent, <<>>, LevelsStart)
        IN  (~asked.aborted /\ (asked.level > 0 \/ asked.partial)) => ~scp.err.nil

\* C35: a transfer whose callback failed returns the protocol error and
\* does not wait for the remote command; one whose callback succeeded waits
\* and returns the command failure, with the standard error when there is
\* some, or nil when the remote command exited with status zero.
C35_FailureKinds ==
    scp.op \in Transfers =>
        /\ ~scp.cb.nil =>
               ~scp.waited /\ scp.err = Errorf("SCP protocol error: ", scp.cb)
        /\ scp.cb.nil =>
               /\ scp.waited
               /\ scp.wait.nil => scp.err.nil
               /\ ~scp.wait.nil /\ scp.stderr = "" =>
                      scp.err = Errorf("SCP command failed: ", scp.wait)
               /\ ~scp.wait.nil /\ scp.stderr # "" =>
                      scp.err = ErrorsNew("SCP command failed: " \o scp.wait.text
                                              \o ", stderr: " \o scp.stderr)

\* a path, relative to the destination of DownloadDir, that leaves it
Outside(path) == path # <<>> /\ path[1] = ".."

\* C40: every file and directory a directory download creates lies inside
\* the destination directory, whatever names the headers carry.
C40_Confined ==
    scp.op = "DownloadDir" =>
        \A path \in (DOMAIN scp.local.files) \cup scp.local.dirs : ~Outside(path)

\* the session object h is in the table
InTable(h) == \E id \in DOMAIN sessions : sessions[id] = h

\* the session object h is in the table and was last looked up at time t,
\* early enough for the clock to pass its expiry
IdleSince(h, t) ==
    /\ InTable(h)
    /\ heap[h].LastActivity = t
    /\ t + sessionExpiry < SweepTime

\* the limiter holds the time t for id, early enough for the clock to pass
\* its maximal age
StampedAt(id, t) ==
    /\ id \in DOMAIN security.rateLimiter
    /\ security.rateLimiter[id] = t
    /\ t + rateLimiterMaxAge < SweepTime

\* a session that is not looked up again leaves the table
SessionsLeave ==
    \A h \in Workers, t \in 0..SweepTime :
        IdleSince(h, t) ~> (/\ h \in DOMAIN heap
                            /\ ~InTable(h) \/ heap[h].LastActivity # t)

\* a session that is not looked up again is closed and leaves the table
SessionsSwept ==
    \A h \in Workers, t \in 0..SweepTime :
        IdleSince(h, t) ~> (/\ h \in DOMAIN heap
                            /\ \/ ~InTable(h) /\ closed[h] > 0
                               \/ heap[h].LastActivity # t)

\* a limiter entry that is not refreshed is pruned
StampsPruned ==
    \A id \in {FormatSessionID("h", "u", t) : t \in 0..SweepTime}, t \in 0..SweepTime :
        StampedAt(id, t) ~> ~StampedAt(id, t)

\* a sweep removes no session whose idle time does not exceed the expiry
SweepsSpare ==
    [][res'.op = "cleanup" =>
          \A id \in DOMAIN sessions \ DOMAIN sessions' :
              now - heap[sessions[id]].LastActivity > sessionExpiry]_vars

\* C36: with both cleanup goroutines running and their tickers firing,
\* every session that is not looked up again is eventually closed and out
\* of the table and every limiter entry that is not refreshed is eventually
\* pruned, and no sweep, however many run, removes a session whose idle time
\* does not exceed the expiry.
C36_SweepsProgress == SessionsSwept /\ StampsPruned /\ SweepsSpare

\* C37: every session in the table has createdAt <= lastActivity; no step
\* lowers the lastActivity of a session or changes its id, host, username
\* or createdAt; and no step lowers the limiter's time of a session id whose
\* entry it keeps.
C37_Monotone ==
    /\ [](\A id \in DOMAIN sessions :
            heap[sessions[id]].CreatedAt <= heap[sessions[id]].LastActivity)
    /\ [][\A h \in DOMAIN heap :
              /\ heap'[h].LastActivity >= heap[h].LastActivity
              /\ heap'[h].ID = heap[h].ID
              /\ heap'[h].Host = heap[h].Host
              /\ heap'[h].Username = heap[h].Username
              /\ heap'[h].CreatedAt = heap[h].CreatedAt]_vars
    /\ [][\A id \in DOMAIN security.rateLimiter \cap DOMAIN security'.rateLimiter :
              security'.rateLimiter[id] >= security.rateLimiter[id]]_vars

\* C37's case: a session has been looked up after the tick of its creation
\* and a permitted call has just set the limiter's time of its id to the
\* last tick of the clock
C37_Witness ==
    \E id \in DOMAIN sessions :
        /\ heap[sessions[id]].LastActivity > heap[sessions[id]].CreatedAt
        /\ id \in DOMAIN security.rateLimiter
        /\ security.rateLimiter[id] = SweepTime
        /\ call.fn = "CheckCommand"
        /\ call.err = ""
        /\ nreq = MaxRequests

\* C38: with a rate limit R > 0, a call of CheckCommand that returns nil,
\* and so has passed the rate-limit check, comes at least R after the last
\* call for the same session id that returned nil, whatever calls of
\* CleanupRateLimiter came in between.
C38_PassesApart ==
    [][\A id \in SessionIds :
          (/\ security.config.RateLimit > 0
           /\ call'.fn = "CheckCommand"
           /\ call'.arg[1] = id
           /\ call'.err = ""
           /\ id \in DOMAIN permitted)
          => now - permitted[id] >= security.config.RateLimit]_vars

\* goroutine p passes the rate-limit check of CheckCommand in this step
Passes(p) == pc[p] = "cc_test" /\ pc'[p] = "cc_stamp"

\* goroutine q has passed the rate-limit check for sessionID less than one
\* interval before t and has not yet recorded its time
PassPending(q, sessionID, t) ==
    /\ pc[q] = "cc_stamp"
    /\ loc[q].id = sessionID
    /\ t - loc[q].now < security.config.RateLimit

\* a call passes the rate-limit check only when no other call for the same
\* session id has passed it less than one interval before, whether that
\* call has recorded its time already or not
OnePasses ==
    [][\A p \in Workers :
          Passes(p) =>
              /\ \A q \in Workers \ {p} : ~PassPending(q, loc[p].id, loc[p].now)
              /\ loc[p].id \in DOMAIN security.rateLimiter =>
                     loc[p].now - security.rateLimiter[loc[p].id]
                         >= security.config.RateLimit]_vars

\* between Lock and Unlock there is one goroutine at most
OneInside ==
    \A p \in Workers :
        pc[p] \in {"cc_read", "cc_test", "cc_stamp", "cc_rules"} => security.mu = p

\* C39: of the calls of CheckCommand for one session id that run at the
\* same time within one interval R, one at most passes the rate-limit check
\* and records its time, the test and the update being made by one
\* goroutine at a time.
C39_CheckAndUpdateAtomic == OnePasses /\ []OneInside

\* C39's case: of three calls for one session id made in the same tick one
\* has passed and recorded its time, one has just been rate limited and one
\* waits for the lock
C39_Witness ==
    /\ security.config.RateLimit > 0
    /\ res.op = "CheckCommand"
    /\ res.err = "rate limit exceeded, please try again later"
    /\ res.id \in DOMAIN security.rateLimiter
    /\ security.rateLimiter[res.id] = res.n
    /\ \E q \in Workers : pc[q] = "cc_lock" /\ loc[q].id = res.id
    /\ nreq = MaxRequests

====
